---- MODULE Spec2Model ----
(***************************************************************************)
(* Model of the address / coordinate resolution pipeline of the Skolverket *)
(* data extractor: class SchoolMapper (two persistent JSON caches, the     *)
(* address scraper and the geocoding cascade) and the row loop of main(),  *)
(* in the Google Maps variant (extract_all_schools_googlemaps.py) and the  *)
(* Nominatim variant (extract_all_schools_nominatim_backup.py).            *)
(*                                                                         *)
(* Text is a sequence of one-character strings, so that strip, split, the  *)
(* regular expression and the composite cache key are computed, not        *)
(* assumed.  A Python dict is the sequence of its items in insertion       *)
(* order.  A file is its existence flag and the JSON tokens it holds.      *)
(***************************************************************************)
EXTENDS Integers, Sequences, FiniteSets, TLC

VARIABLES
    variant,            \* which script runs: "google" or "nominatim"
    api_key_file,       \* google_maps_api_key.txt: "missing", "empty", "present"
    dataset,            \* schools_with_merit: the rows the loop iterates over
    csv_rows,           \* the rows of the CSV file, merit column made numeric
    top,                \* args.top
    page_text,          \* text of a school page (extraction on its own)
    scan_line,          \* history: index of the label line the line scan accepted
    schools_data,       \* SkolverketExtractor.schools_data
    schools_json,       \* schools_data.json on disk
    grades_csv,         \* schools_grades.csv on disk
    merit_values,       \* merit_value of the records a map is drawn from
    buckets,            \* colour bucket get_color gave each record
    address_file,       \* address_cache.json on disk
    coord_file,         \* coord_cache.json on disk
    pc,                 \* position of the process
    run,                \* number of process starts so far
    started_cached,     \* history: this run found every id and key cached
    prev_records,       \* history: school_data of the completed run this run follows
    address_cache,      \* SchoolMapper.address_cache
    coord_cache,        \* SchoolMapper.coord_cache
    idx,                \* loop index of main()
    was_cached,         \* main(): was_cached
    address,            \* main(): address
    coords,             \* main(): coords
    school_data,        \* main(): school_data
    failed_addresses,   \* main(): failed_addresses
    failed_geocoding,   \* main(): failed_geocoding
    cache_hits,         \* main(): cache_hits
    cache_key,          \* geocode_address: cache_key
    search_addresses,   \* geocode_address: search_addresses
    cand,               \* geocode_address: position in search_addresses
    attempt,            \* geocode_address: attempt (Nominatim retry loop)
    geo_hit,            \* history: the last geocode_address call was a cache hit
    http_log,           \* history: school ids fetched with session.get, this run
    last_response,      \* history: how the last get_school_address call fared
    geo_log,            \* history: queries sent by the last geocode_address call
    last_answer,        \* history: the provider's answer to the last query
    sleeps,             \* history: rate-limit sleeps of main(), this run
    flushed_null_ids,   \* history: ids recorded null by a completed final flush
    flushed_null_keys   \* history: coordinate keys recorded null likewise

vars == << variant, api_key_file, dataset, csv_rows, top, page_text,
           scan_line, schools_data, schools_json, grades_csv,
           merit_values, buckets,
           address_file, coord_file, pc, run,
           started_cached, prev_records, last_response,
           address_cache, coord_cache, idx, was_cached, address, coords,
           school_data, failed_addresses, failed_geocoding, cache_hits,
           cache_key, search_addresses, cand, attempt, geo_hit,
           http_log, geo_log, last_answer, sleeps, flushed_null_ids, flushed_null_keys >>

-----------------------------------------------------------------------------
(* Bounds of the model *)

MaxRows == 2
MaxRuns == 2
LongRows == 101
MaxCsvRows == 3
MaxLines == 4
MaxRegisterRows == 11
MaxSeed == 3
MaxMerits == 3

-----------------------------------------------------------------------------
(* Python values *)

PyNone == [t |-> "None"]
PyStr(s) == [t |-> "str", s |-> s]
PyList(a, b) == [t |-> "list", lat |-> a, lng |-> b]
PyTuple(a, b) == [t |-> "tuple", lat |-> a, lng |-> b]

\* Python truth value of None, a str, a two-element list or tuple
Truthy(v) == IF v.t = "None" THEN FALSE
             ELSE IF v.t = "str" THEN v.s # << >>
             ELSE TRUE

(* dict: the sequence of its items, in insertion order *)
EmptyDict == << >>
Keys(d) == {d[i].k : i \in 1..Len(d)}
Has(d, k) == \E i \in 1..Len(d) : d[i].k = k
Get(d, k) == d[CHOOSE i \in 1..Len(d) : d[i].k = k].v
\* Seeded fault: the dict is bounded to one entry, and a new key evicts
\* the entry it finds
Put_Evict(d, k, v) == << [k |-> k, v |-> v] >>

Put(d, k, v) ==
    IF Has(d, k)
    THEN [i \in 1..Len(d) |-> IF d[i].k = k THEN [k |-> k, v |-> v] ELSE d[i]]
    ELSE Append(d, [k |-> k, v |-> v])

-----------------------------------------------------------------------------
(* Text *)

Whitespace == {" ", "\n", "\t"}

RECURSIVE LStrip(_)
LStrip(s) == IF s # << >> /\ Head(s) \in Whitespace THEN LStrip(Tail(s)) ELSE s

RECURSIVE RStrip(_)
RStrip(s) == IF s # << >> /\ s[Len(s)] \in Whitespace
             THEN RStrip(SubSeq(s, 1, Len(s) - 1)) ELSE s

\* str.strip()
Strip(s) == RStrip(LStrip(s))

\* position of the first c in s at or after p, Len(s) + 1 when there is none
RECURSIVE Find(_, _, _)
Find(s, c, p) == IF p > Len(s) THEN Len(s) + 1
                 ELSE IF s[p] = c THEN p ELSE Find(s, c, p + 1)

\* str.split('\n')
RECURSIVE SplitLines(_)
SplitLines(s) ==
    LET i == Find(s, "\n", 1)
    IN  IF i > Len(s) THEN << s >>
        ELSE << SubSeq(s, 1, i - 1) >> \o SplitLines(SubSeq(s, i + 1, Len(s)))

\* str.split()[0]: the first whitespace-delimited token of a string that has one
RECURSIVE TokenEnd(_, _)
TokenEnd(s, p) == IF p > Len(s) \/ s[p] \in Whitespace THEN p - 1
                  ELSE TokenEnd(s, p + 1)
FirstToken(s) == LET t == LStrip(s) IN SubSeq(t, 1, TokenEnd(t, 1))

StartsWithAt(s, p, w) ==
    /\ p + Len(w) - 1 <= Len(s)
    /\ SubSeq(s, p, p + Len(w) - 1) = w

Label == << "A", "d", "r", "e", "s", "s" >>
Sweden == << "S", "w", "e", "d", "e", "n" >>
CommaSpace == << ",", " " >>
NoneWord == << "N", "o", "n", "e" >>

-----------------------------------------------------------------------------
(* get_school_address: extraction of the address from the page text *)

\* the line scan: indices i (0-based, as enumerate gives them) of the lines
\* that equal the label, have a next line, and whose next line is accepted
\* Seeded fault: a next line of three characters is accepted
ScanAccepts_MinThree(lines, i) ==
    /\ Strip(lines[i + 1]) = Label
    /\ i + 1 < Len(lines)
    /\ LET address_line == Strip(lines[i + 2])
       IN  address_line # << >> /\ Len(address_line) >= 3

ScanAccepts(lines, i) ==
    /\ Strip(lines[i + 1]) = Label
    /\ i + 1 < Len(lines)
    /\ LET address_line == Strip(lines[i + 2])
       IN  address_line # << >> /\ Len(address_line) > 3

ScanHits(lines) == {i \in 0..(Len(lines) - 1) : ScanAccepts(lines, i)}

\* the index i at which the loop of the line scan returns, -1 when the loop
\* ends without returning
ScanIndex(lines) ==
    IF ScanHits(lines) = {} THEN -1
    ELSE CHOOSE h \in ScanHits(lines) : \A g \in ScanHits(lines) : h <= g

\* the address the line scan returns, for a text on which it accepts a line
ScanAddress(lines) ==
    LET i == CHOOSE h \in ScanHits(lines) : \A g \in ScanHits(lines) : h <= g
    IN  Strip(lines[i + 2])

\* length of the run of whitespace of text that starts at position q
RECURSIVE SpaceRun(_, _)
SpaceRun(text, q) == IF q <= Len(text) /\ text[q] \in Whitespace
                     THEN 1 + SpaceRun(text, q + 1) ELSE 0

\* \s*([^\n]+) at position q: \s* is greedy and gives back one character at
\* a time until the group can start; the start of the group, 0 when the
\* rest of the pattern matches for no length of \s*
GroupStartFrom(text, q) ==
    LET k == SpaceRun(text, q)
        ok == {j \in 0..k : q + j <= Len(text) /\ text[q + j] # "\n"}
    IN  IF ok = {} THEN 0
        ELSE q + (CHOOSE j \in ok : \A h \in ok : h <= j)

\* Adress:?\s*([^\n]+) tried at position p: first with the optional colon
\* taken, then without it; the start of the group, 0 for no match
MatchAt(text, p) ==
    IF ~StartsWithAt(text, p, Label) THEN 0
    ELSE LET q == p + Len(Label)
             colon == q <= Len(text) /\ text[q] = ":"
         IN  IF colon /\ GroupStartFrom(text, q + 1) # 0
             THEN GroupStartFrom(text, q + 1)
             ELSE GroupStartFrom(text, q)

\* re.search(r'Adress:?\s*([^\n]+)', text): the leftmost position that matches
MatchPositions(text) == {p \in 1..Len(text) : MatchAt(text, p) # 0}
RegexMatches(text) == MatchPositions(text) # {}

\* address_match.group(1): from the start of the group to the end of its line
RegexGroup(text) ==
    LET p == CHOOSE m \in MatchPositions(text) :
                 \A n \in MatchPositions(text) : m <= n
        g == MatchAt(text, p)
    IN  SubSeq(text, g, Find(text, "\n", g) - 1)

\* Seeded fault: the regex is tried before the line scan
ExtractAddress_RegexFirst(text) ==
    LET lines == SplitLines(text)
    IN  IF RegexMatches(text) THEN PyStr(Strip(RegexGroup(text)))
        ELSE IF ScanHits(lines) # {} THEN PyStr(ScanAddress(lines))
        ELSE PyNone

\* lines 70-93 of get_school_address: the value cached and returned for a
\* response with status 200 and this text
ExtractAddress(text) ==
    LET lines == SplitLines(text)
    IN  IF ScanHits(lines) # {} THEN PyStr(ScanAddress(lines))
        ELSE IF RegexMatches(text) THEN PyStr(Strip(RegexGroup(text)))
        ELSE PyNone

-----------------------------------------------------------------------------
(* The address source: what session.get can give for a school page *)

\* the texts a page of the address source is drawn from: the address on
\* the line after the label, on the line of the label, a next line that is
\* too short, a label with blanks only, and a page without the label
PageTexts ==
    {<< "S", "k", "\n", "A", "d", "r", "e", "s", "s", "\n",
        " ", "V", "a", "g", " ", "1", "\n" >>,
     << "A", "d", "r", "e", "s", "s", ":", " ",
        "V", "a", "g", " ", "1", " ", "\n", "x" >>,
     << "A", "d", "r", "e", "s", "s", "\n", "A", "b", "\n" >>,
     << "A", "d", "r", "e", "s", "s", ":", " ", "\n" >>,
     << "S", "k", "o", "l", "a", "\n" >>}

\* a response with a status code, or the exception session.get raised
HttpResponses ==
    {[kind |-> "response", status_code |-> 200, text |-> t] : t \in PageTexts}
    \cup {[kind |-> "response", status_code |-> 404, text |-> << >>],
          [kind |-> "exception", status_code |-> 0, text |-> << >>]}

\* Seeded fault: the cache test is on the cached value (cache.get(id)), so a
\* cached None counts as a miss and is fetched again
get_school_address_RefetchNone(cache, school_id, resp) ==
    IF Has(cache, school_id) /\ Truthy(Get(cache, school_id))
    THEN [ret |-> Get(cache, school_id), cache |-> cache, fetched |-> FALSE,
          raised |-> FALSE]
    ELSE LET result ==
                 IF resp.kind = "exception" THEN PyNone
                 ELSE IF resp.status_code = 200 THEN ExtractAddress(resp.text)
                 ELSE PyNone
         IN  [ret |-> result, cache |-> Put(cache, school_id, result),
              fetched |-> TRUE, raised |-> FALSE]

\* Seeded fault: the except branch returns None without caching it
get_school_address_ExceptUncached(cache, school_id, resp) ==
    IF Has(cache, school_id)
    THEN [ret |-> Get(cache, school_id), cache |-> cache, fetched |-> FALSE,
          raised |-> FALSE]
    ELSE IF resp.kind = "exception"
    THEN [ret |-> PyNone, cache |-> cache, fetched |-> TRUE, raised |-> FALSE]
    ELSE LET result == IF resp.status_code = 200
                       THEN ExtractAddress(resp.text) ELSE PyNone
         IN  [ret |-> result, cache |-> Put(cache, school_id, result),
              fetched |-> TRUE, raised |-> FALSE]

\* Seeded fault: no try/except around the fetch, so the exception raised by
\* session.get leaves get_school_address
get_school_address_NoExcept(cache, school_id, resp) ==
    IF Has(cache, school_id)
    THEN [ret |-> Get(cache, school_id), cache |-> cache, fetched |-> FALSE,
          raised |-> FALSE]
    ELSE IF resp.kind = "exception"
    THEN [ret |-> PyNone, cache |-> cache, fetched |-> TRUE, raised |-> TRUE]
    ELSE LET result == IF resp.status_code = 200
                       THEN ExtractAddress(resp.text) ELSE PyNone
         IN  [ret |-> result, cache |-> Put(cache, school_id, result),
              fetched |-> TRUE, raised |-> FALSE]

\* Seeded fault: the page is fetched and the entry rewritten although the id
\* is cached
get_school_address_Refresh(cache, school_id, resp) ==
    LET result ==
            IF resp.kind = "exception" THEN PyNone
            ELSE IF resp.status_code = 200 THEN ExtractAddress(resp.text)
            ELSE PyNone
    IN  [ret |-> result, cache |-> Put(cache, school_id, result),
         fetched |-> TRUE, raised |-> FALSE]

\* SchoolMapper.get_school_address(school_id), given what session.get would
\* give: the value returned, the cache afterwards, whether the GET was issued
get_school_address(cache, school_id, resp) ==
    IF Has(cache, school_id)
    THEN [ret |-> Get(cache, school_id), cache |-> cache, fetched |-> FALSE,
          raised |-> FALSE]
    ELSE LET result ==
                 IF resp.kind = "exception" THEN PyNone
                 ELSE IF resp.status_code = 200 THEN ExtractAddress(resp.text)
                 ELSE PyNone
         IN  [ret |-> result, cache |-> Put(cache, school_id, result),
              fetched |-> TRUE, raised |-> FALSE]

-----------------------------------------------------------------------------
(* geocode_address: cache key and candidate queries *)

\* f"{address or 'None'}|{municipality}"
CacheKey(addr, municipality) ==
    (IF Truthy(addr) THEN addr.s ELSE NoneWord) \o << "|" >> \o municipality

\* search_addresses of the Google Maps variant
SearchAddressesGoogle(addr, municipality) ==
    IF Truthy(addr)
    THEN << addr.s \o CommaSpace \o municipality \o CommaSpace \o Sweden,
            addr.s \o CommaSpace \o Sweden,
            municipality \o CommaSpace \o Sweden >>
    ELSE << municipality \o CommaSpace \o Sweden >>

\* Seeded fault: the street-name candidate comes after the municipality
SearchAddressesNominatim_StreetLast(addr, municipality) ==
    IF Truthy(addr)
    THEN << addr.s \o CommaSpace \o municipality \o CommaSpace \o Sweden,
            addr.s \o CommaSpace \o Sweden,
            municipality \o CommaSpace \o Sweden,
            FirstToken(addr.s) \o CommaSpace \o municipality
                \o CommaSpace \o Sweden >>
    ELSE << municipality \o CommaSpace \o Sweden >>

\* search_addresses of the Nominatim variant
SearchAddressesNominatim(addr, municipality) ==
    IF Truthy(addr)
    THEN << addr.s \o CommaSpace \o municipality \o CommaSpace \o Sweden,
            addr.s \o CommaSpace \o Sweden,
            FirstToken(addr.s) \o CommaSpace \o municipality
                \o CommaSpace \o Sweden,
            municipality \o CommaSpace \o Sweden >>
    ELSE << municipality \o CommaSpace \o Sweden >>

\* Seeded fault: no branch for a missing address, the three formats are
\* built from f"{address}", which is 'None' for None
SearchAddresses_NoElse(v, addr, municipality) ==
    LET a == IF addr.t = "str" THEN addr.s ELSE NoneWord
    IN  << a \o CommaSpace \o municipality \o CommaSpace \o Sweden,
           a \o CommaSpace \o Sweden,
           municipality \o CommaSpace \o Sweden >>

SearchAddresses(v, addr, municipality) ==
    IF v = "google" THEN SearchAddressesGoogle(addr, municipality)
    ELSE SearchAddressesNominatim(addr, municipality)

\* Seeded fault: every variant retries a candidate once
Attempts_Retry(v) == 2

\* attempts per candidate: one call in the Google variant, range(2) in the
\* Nominatim variant
Attempts(v) == IF v = "google" THEN 1 ELSE 2

\* Seeded fault: the cache test is on the cached value, so a cached failure
\* counts as a miss
CoordCacheHit_Truthy(cache, key) == Has(cache, key) /\ Truthy(Get(cache, key))

\* cache_key in self.coord_cache
CoordCacheHit(cache, key) == Has(cache, key)

\* Seeded fault: a cached pair is returned with its elements swapped
CachedCoords_Swapped(cache, key) ==
    LET cached_coords == Get(cache, key)
    IN  IF Truthy(cached_coords)
        THEN PyTuple(cached_coords.lng, cached_coords.lat)
        ELSE PyNone

\* the value geocode_address returns on a cache hit
CachedCoords(cache, key) ==
    LET cached_coords == Get(cache, key)
    IN  IF Truthy(cached_coords)
        THEN PyTuple(cached_coords.lat, cached_coords.lng)
        ELSE PyNone

\* what the geocoding provider can answer to one query
Locations == {<< 59, 17 >>, << 60, 18 >>}
NoAnswer == [kind |-> "none", loc |-> << 0, 0 >>]
\* the provider answers (a result, no result, an exception), or stays silent
\* for as long as the caller waits
GeocodeAnswers ==
    {[kind |-> "result", loc |-> l] : l \in Locations}
    \cup {[kind |-> "empty", loc |-> << 0, 0 >>],
          [kind |-> "error", loc |-> << 0, 0 >>],
          [kind |-> "silent", loc |-> << 0, 0 >>]}

\* seconds after which a call gives up on a silent server
GetTimeout == 10
NominatimTimeout == 15

\* timeout= of session.get(url, timeout=10)
PageTimeout == [set |-> TRUE, seconds |-> GetTimeout]

\* timeout of one geocoding query: geolocator.geocode(search_addr,
\* timeout=15) in the Nominatim variant; gmaps.geocode(search_addr) passes
\* none, and neither does googlemaps.Client(key=api_key)
GeocodeTimeout(v) ==
    IF v = "nominatim" THEN [set |-> TRUE, seconds |-> NominatimTimeout]
    ELSE [set |-> FALSE, seconds |-> 0]

\* what the caller of a query sees: a call that timed out raised an exception
Seen(ans) == IF ans.kind = "silent" THEN [kind |-> "error", loc |-> << 0, 0 >>]
             ELSE ans

-----------------------------------------------------------------------------
(* The cache files: json.dump and json.load *)

JNull == [j |-> "null"]
JString(s) == [j |-> "string", s |-> s]
JArray(a, b) == [j |-> "array", a |-> a, b |-> b]

LBrace == [tok |-> "{"]
RBrace == [tok |-> "}"]
Member(k, jv) == [tok |-> "member", key |-> k, val |-> jv]

\* Seeded fault: the value is written as str(v), None as the string "None"
JsonEncode_Str(v) == IF v.t = "None" THEN JString(NoneWord)
                     ELSE IF v.t = "str" THEN JString(v.s)
                     ELSE JArray(v.lat, v.lng)

\* the JSON value json.dump writes for a cache value
JsonEncode(v) == IF v.t = "None" THEN JNull
                 ELSE IF v.t = "str" THEN JString(v.s)
                 ELSE JArray(v.lat, v.lng)

\* the Python value json.load builds for a JSON value
JsonDecode(jv) == IF jv.j = "null" THEN PyNone
                  ELSE IF jv.j = "string" THEN PyStr(jv.s)
                  ELSE PyList(jv.a, jv.b)

\* Seeded fault: only the entries with a value are written
JsonDump_SkipNull(d) ==
    LET kept == SelectSeq(d, LAMBDA e : e.v # PyNone)
    IN  << LBrace >>
        \o [i \in 1..Len(kept) |-> Member(kept[i].k, JsonEncode(kept[i].v))]
        \o << RBrace >>

\* json.dump(d, f): the tokens of the document, members in dict order
JsonDump(d) ==
    << LBrace >> \o [i \in 1..Len(d) |-> Member(d[i].k, JsonEncode(d[i].v))]
                 \o << RBrace >>

\* whether json.load accepts the contents (else it raises JSONDecodeError)
JsonValid(data) ==
    /\ Len(data) >= 2
    /\ data[1] = LBrace
    /\ data[Len(data)] = RBrace
    /\ \A i \in 2..(Len(data) - 1) : data[i].tok = "member"

\* json.load(f) of valid contents
JsonLoad(data) ==
    [i \in 1..(Len(data) - 2) |->
        [k |-> data[i + 1].key, v |-> JsonDecode(data[i + 1].val)]]

NoFile == [exists |-> FALSE, data |-> << >>]
FileWith(data) == [exists |-> TRUE, data |-> data]

\* load_address_cache / load_coord_cache: the dict returned, or the
\* exception json.load raises, which neither method catches
LoadCache(file) ==
    IF ~file.exists THEN [raised |-> FALSE, dict |-> EmptyDict]
    ELSE IF JsonValid(file.data)
         THEN [raised |-> FALSE, dict |-> JsonLoad(file.data)]
         ELSE [raised |-> TRUE, dict |-> EmptyDict]

\* save_address_cache / save_coord_cache run to completion: open(.., 'w')
\* and json.dump
SaveCache(d) == FileWith(JsonDump(d))

\* what the file can hold when the process dies inside save_*_cache: open
\* has truncated it and only a part of the document has been written
PartialWrites(d) ==
    {FileWith(SubSeq(JsonDump(d), 1, n)) : n \in 0..(Len(JsonDump(d)) - 1)}

-----------------------------------------------------------------------------
(* One iteration of the candidate loop of geocode_address *)

\* Seeded fault: a result is cached but the loop does not return on it, it
\* goes on while candidates are left
GeocodeStep_NoStop(v, cache, key, cands, cnd, att, ans) ==
    IF ans.kind = "result" /\ cnd = Len(cands)
    THEN [done |-> TRUE, ret |-> PyTuple(ans.loc[1], ans.loc[2]),
          cache |-> Put(cache, key, PyList(ans.loc[1], ans.loc[2])),
          cand |-> cnd, attempt |-> att,
          raised |-> FALSE]
    ELSE IF ans.kind = "result"
    THEN [done |-> FALSE, ret |-> PyNone,
          cache |-> Put(cache, key, PyList(ans.loc[1], ans.loc[2])),
          cand |-> cnd + 1, attempt |-> 1,
          raised |-> FALSE]
    ELSE IF att < Attempts(v)
    THEN [done |-> FALSE, ret |-> PyNone, cache |-> cache,
          cand |-> cnd, attempt |-> att + 1,
          raised |-> FALSE]
    ELSE IF cnd < Len(cands)
    THEN [done |-> FALSE, ret |-> PyNone, cache |-> cache,
          cand |-> cnd + 1, attempt |-> 1,
          raised |-> FALSE]
    ELSE [done |-> TRUE, ret |-> PyNone,
          cache |-> IF Has(cache, key) THEN cache ELSE Put(cache, key, PyNone),
          cand |-> cnd, attempt |-> att,
          raised |-> FALSE]

\* Seeded fault: the failure of the whole cascade is returned but not cached
GeocodeStep_NoNegative(v, cache, key, cands, cnd, att, ans) ==
    IF ans.kind = "result"
    THEN [done |-> TRUE, ret |-> PyTuple(ans.loc[1], ans.loc[2]),
          cache |-> Put(cache, key, PyList(ans.loc[1], ans.loc[2])),
          cand |-> cnd, attempt |-> att,
          raised |-> FALSE]
    ELSE IF att < Attempts(v)
    THEN [done |-> FALSE, ret |-> PyNone, cache |-> cache,
          cand |-> cnd, attempt |-> att + 1,
          raised |-> FALSE]
    ELSE IF cnd < Len(cands)
    THEN [done |-> FALSE, ret |-> PyNone, cache |-> cache,
          cand |-> cnd + 1, attempt |-> 1,
          raised |-> FALSE]
    ELSE [done |-> TRUE, ret |-> PyNone, cache |-> cache,
          cand |-> cnd, attempt |-> att,
          raised |-> FALSE]

\* Seeded fault: no try/except around the provider call, so its exception
\* leaves geocode_address
GeocodeStep_Propagate(v, cache, key, cands, cnd, att, ans) ==
    IF ans.kind = "result"
    THEN [done |-> TRUE, ret |-> PyTuple(ans.loc[1], ans.loc[2]),
          cache |-> Put(cache, key, PyList(ans.loc[1], ans.loc[2])),
          cand |-> cnd, attempt |-> att, raised |-> FALSE]
    ELSE IF ans.kind = "error"
    THEN [done |-> TRUE, ret |-> PyNone, cache |-> cache,
          cand |-> cnd, attempt |-> att, raised |-> TRUE]
    ELSE IF att < Attempts(v)
    THEN [done |-> FALSE, ret |-> PyNone, cache |-> cache,
          cand |-> cnd, attempt |-> att + 1, raised |-> FALSE]
    ELSE IF cnd < Len(cands)
    THEN [done |-> FALSE, ret |-> PyNone, cache |-> cache,
          cand |-> cnd + 1, attempt |-> 1, raised |-> FALSE]
    ELSE [done |-> TRUE, ret |-> PyNone, cache |-> Put(cache, key, PyNone),
          cand |-> cnd, attempt |-> att, raised |-> FALSE]

\* lines 121-135 (Google) / 108-124 (Nominatim): the query for candidate
\* cnd, attempt att, was answered ans.  done: the method returns; ret: what
\* it returns; cache: coord_cache afterwards; cand, attempt: the next query
GeocodeStep(v, cache, key, cands, cnd, att, ans) ==
    IF ans.kind = "result"
    THEN [done |-> TRUE, ret |-> PyTuple(ans.loc[1], ans.loc[2]),
          cache |-> Put(cache, key, PyList(ans.loc[1], ans.loc[2])),
          cand |-> cnd, attempt |-> att,
          raised |-> FALSE]
    ELSE IF att < Attempts(v)
    THEN [done |-> FALSE, ret |-> PyNone, cache |-> cache,
          cand |-> cnd, attempt |-> att + 1,
          raised |-> FALSE]
    ELSE IF cnd < Len(cands)
    THEN [done |-> FALSE, ret |-> PyNone, cache |-> cache,
          cand |-> cnd + 1, attempt |-> 1,
          raised |-> FALSE]
    ELSE [done |-> TRUE, ret |-> PyNone, cache |-> Put(cache, key, PyNone),
          cand |-> cnd, attempt |-> att,
          raised |-> FALSE]

-----------------------------------------------------------------------------
(* main(): the dataset and the row loop *)

Uppsala == << "U", "p" >>

Kiruna == << "K", "i" >>

Schools == {[school_id |-> "s1", municipality |-> Uppsala],
            [school_id |-> "s2", municipality |-> Kiruna]}

Datasets == UNION {[1..n -> Schools] : n \in 0..MaxRows}

\* a cell of the merit column after pd.to_numeric(.., errors='coerce'): a
\* number, or NaN for a cell that is no number
NaN == [valid |-> FALSE, value |-> 0]
Merit(n) == [valid |-> TRUE, value |-> n]

\* df[df['merit_value'].notna()]
NotNa(rows) == SelectSeq(rows, LAMBDA r : r.merit.valid)

\* sort_values('merit_value', ascending=False); rows of equal merit keep
\* the order they have in the file
SortDesc(rows) ==
    LET n == Len(rows)
        Before(rs, j, i) ==
            \/ rs[j].merit.value > rs[i].merit.value
            \/ (rs[j].merit.value = rs[i].merit.value /\ j < i)
        place(i) == 1 + Cardinality({j \in 1..n : Before(rows, j, i)})
    IN  [k \in 1..n |-> rows[CHOOSE i \in 1..n : place(i) = k]]

\* .head(100) of the Nominatim variant
HeadRows == 100

\* default of --top
DefaultTop == 100

\* schools_with_merit as main() builds it: the rows with a merit value,
\* best first; all of them (Google), the first 100 (Nominatim).  args.top
\* is not an input of main()
SchoolsWithMerit(v, rows) ==
    LET s == SortDesc(NotNa(rows))
    IN  IF v = "nominatim" /\ Len(s) > HeadRows THEN SubSeq(s, 1, HeadRows)
        ELSE s

\* a CSV file that gives the rows d in this order: every merit a number,
\* falling from row to row
CanonCsv(d) ==
    [i \in 1..Len(d) |-> [school_id |-> d[i].school_id,
                          municipality |-> d[i].municipality,
                          merit |-> Merit(Len(d) - i + 1)]]

\* Seeded fault: the two variants' checkpoint periods are exchanged
SaveEvery_Swapped(v) == IF v = "google" THEN 50 ELSE 100

\* the period of the cache checkpoint: idx % 100 (Google), idx % 50 (Nominatim)
SaveEvery(v) == IF v = "google" THEN 100 ELSE 50

Running == {"row", "geocode", "query", "save_address_cache",
            "save_coord_cache", "sleep"}

aside == << csv_rows, top, page_text, scan_line, schools_data, schools_json,
           grades_csv, merit_values, buckets >>
world == << variant, api_key_file, dataset, aside >>
files == << address_file, coord_file >>
flushed == << flushed_null_ids, flushed_null_keys >>
geo_locals == << cache_key, search_addresses, cand, attempt >>

\* what a process that starts has before it: the enriched records of the run
\* that has just completed and whose caches it will load, if there is one
NoRecords == [set |-> FALSE, list |-> << >>]
CompletedRecords ==
    IF pc = "done" THEN [set |-> TRUE, list |-> school_data] ELSE NoRecords

Init ==
    /\ variant \in {"google", "nominatim"}
    /\ api_key_file \in {"missing", "empty", "present"}
    /\ variant = "nominatim" => api_key_file = "missing"
    /\ dataset \in Datasets
    /\ csv_rows = CanonCsv(dataset)
    /\ top = DefaultTop
    /\ page_text = << >>
    /\ scan_line = -1
    /\ schools_data = << >>
    /\ schools_json = NoFile
    /\ grades_csv = NoFile
    /\ merit_values = << >>
    /\ buckets = << >>
    /\ address_file = NoFile
    /\ coord_file = NoFile
    /\ pc = "idle"
    /\ run = 0
    /\ started_cached = FALSE
    /\ prev_records = NoRecords
    /\ address_cache = EmptyDict
    /\ coord_cache = EmptyDict
    /\ idx = 0
    /\ was_cached = FALSE
    /\ address = PyNone
    /\ coords = PyNone
    /\ school_data = << >>
    /\ failed_addresses = 0
    /\ failed_geocoding = 0
    /\ cache_hits = 0
    /\ cache_key = << >>
    /\ search_addresses = << >>
    /\ cand = 0
    /\ attempt = 0
    /\ geo_hit = FALSE
    /\ http_log = << >>
    /\ last_response = "none"
    /\ geo_log = << >>
    /\ last_answer = NoAnswer
    /\ sleeps = 0
    /\ flushed_null_ids = {}
    /\ flushed_null_keys = {}

\* the variables of main() and of geocode_address in a process that has
\* not entered the row loop
FreshLocals ==
    /\ idx' = 0
    /\ was_cached' = FALSE
    /\ address' = PyNone
    /\ coords' = PyNone
    /\ school_data' = << >>
    /\ failed_addresses' = 0
    /\ failed_geocoding' = 0
    /\ cache_hits' = 0
    /\ cache_key' = << >>
    /\ search_addresses' = << >>
    /\ cand' = 0
    /\ attempt' = 0
    /\ geo_hit' = FALSE
    /\ http_log' = << >>
    /\ last_response' = "none"
    /\ geo_log' = << >>
    /\ last_answer' = NoAnswer
    /\ sleeps' = 0

\* Seeded fault: a missing key file is tolerated and the run goes on
ApiKeyLoaded_Degrade(v, key_file) == key_file # "empty"

\* load_api_key and the check of __init__: whether a usable key was read
ApiKeyLoaded(v, key_file) == v = "google" => key_file = "present"

\* SchoolMapper(): the caches it holds, or that it raised
NewMapper(v, key_file, afile, cfile) ==
    IF ~ApiKeyLoaded(v, key_file)
    THEN [raised |-> TRUE, address_cache |-> EmptyDict,
          coord_cache |-> EmptyDict]
    ELSE [raised |-> LoadCache(afile).raised \/ LoadCache(cfile).raised,
          address_cache |-> LoadCache(afile).dict,
          coord_cache |-> LoadCache(cfile).dict]

\* every row of the dataset has its id in the address cache ac and the
\* composite key of its cached address in the coordinate cache cc
AllCached(ac, cc) ==
    \A i \in 1..Len(dataset) :
        /\ Has(ac, dataset[i].school_id)
        /\ Has(cc, CacheKey(Get(ac, dataset[i].school_id),
                            dataset[i].municipality))

\* the process starts: main() up to the row loop
Start ==
    /\ pc \in {"idle", "done", "aborted", "crashed", "mapped"}
    /\ run < MaxRuns
    /\ run' = run + 1
    /\ LET m == NewMapper(variant, api_key_file, address_file, coord_file)
       IN  /\ address_cache' = (IF m.raised THEN EmptyDict ELSE m.address_cache)
           /\ coord_cache' = (IF m.raised THEN EmptyDict ELSE m.coord_cache)
           /\ pc' = IF m.raised THEN "aborted"
                    ELSE IF Len(dataset) = 0 THEN "save_address_cache"
                    ELSE "row"
           /\ started_cached' =
                  (~m.raised /\ AllCached(m.address_cache, m.coord_cache))
    /\ prev_records' = CompletedRecords
    /\ FreshLocals
    /\ UNCHANGED << world, files, flushed >>

\* Seeded fault: a record is built only when the address was found too; a
\* row with a coordinate and no address is dropped without being counted
AfterGeocode_RequireAddress(c) ==
    /\ coords' = c
    /\ IF Truthy(c) /\ Truthy(address)
       THEN /\ school_data' = Append(school_data,
                [school_id |-> dataset[idx + 1].school_id,
                 municipality |-> dataset[idx + 1].municipality,
                 address |-> address.s,
                 latitude |-> c.lat,
                 longitude |-> c.lng])
            /\ UNCHANGED failed_geocoding
       ELSE /\ failed_geocoding' = (IF Truthy(c) THEN failed_geocoding
                                    ELSE failed_geocoding + 1)
            /\ UNCHANGED school_data
    /\ pc' = IF idx % SaveEvery(variant) = 0 THEN "save_address_cache"
             ELSE "sleep"

\* Seeded fault: failed_geocoding is also incremented for a row that got a
\* record from the municipality fallback
AfterGeocode_CountFallback(c) ==
    /\ coords' = c
    /\ IF Truthy(c)
       THEN /\ school_data' = Append(school_data,
                [school_id |-> dataset[idx + 1].school_id,
                 municipality |-> dataset[idx + 1].municipality,
                 address |-> (IF Truthy(address) THEN address.s
                              ELSE dataset[idx + 1].municipality),
                 latitude |-> c.lat,
                 longitude |-> c.lng])
            /\ failed_geocoding' = (IF Truthy(address) THEN failed_geocoding
                                    ELSE failed_geocoding + 1)
       ELSE /\ failed_geocoding' = failed_geocoding + 1
            /\ UNCHANGED school_data
    /\ pc' = IF idx % SaveEvery(variant) = 0 THEN "save_address_cache"
             ELSE "sleep"

\* Seeded fault: a row that could not be geocoded ends the run
AfterGeocode_AbortOnFailure(c) ==
    /\ coords' = c
    /\ IF Truthy(c)
       THEN /\ school_data' = Append(school_data,
                [school_id |-> dataset[idx + 1].school_id,
                 municipality |-> dataset[idx + 1].municipality,
                 address |-> (IF Truthy(address) THEN address.s
                              ELSE dataset[idx + 1].municipality),
                 latitude |-> c.lat,
                 longitude |-> c.lng])
            /\ UNCHANGED failed_geocoding
       ELSE /\ failed_geocoding' = failed_geocoding + 1
            /\ UNCHANGED school_data
    /\ pc' = IF ~Truthy(c) THEN "aborted"
             ELSE IF idx % SaveEvery(variant) = 0 THEN "save_address_cache"
             ELSE "sleep"

\* Seeded fault: the record carries the address as it was returned
AfterGeocode_AddressAsIs(c) ==
    /\ coords' = c
    /\ IF Truthy(c)
       THEN /\ school_data' = Append(school_data,
                [school_id |-> dataset[idx + 1].school_id,
                 municipality |-> dataset[idx + 1].municipality,
                 address |-> (IF address.t = "str" THEN address.s
                              ELSE NoneWord),
                 latitude |-> c.lat,
                 longitude |-> c.lng])
            /\ UNCHANGED failed_geocoding
       ELSE /\ failed_geocoding' = failed_geocoding + 1
            /\ UNCHANGED school_data
    /\ pc' = IF idx % SaveEvery(variant) = 0 THEN "save_address_cache"
             ELSE "sleep"

\* lines 450-468 of main(), once geocode_address has returned c: the record
\* is appended or the failure counted, and the checkpoint is due or not
AfterGeocode(c) ==
    /\ coords' = c
    /\ IF Truthy(c)
       THEN /\ school_data' = Append(school_data,
                [school_id |-> dataset[idx + 1].school_id,
                 municipality |-> dataset[idx + 1].municipality,
                 address |-> (IF Truthy(address) THEN address.s
                              ELSE dataset[idx + 1].municipality),
                 latitude |-> c.lat,
                 longitude |-> c.lng])
            /\ UNCHANGED failed_geocoding
       ELSE /\ failed_geocoding' = failed_geocoding + 1
            /\ UNCHANGED school_data
    /\ pc' = IF idx % SaveEvery(variant) = 0 THEN "save_address_cache"
             ELSE "sleep"

\* what session.get gave: a page ("ok"), another status code ("status") or
\* an exception ("exception")
ResponseKind(resp) ==
    IF resp.kind = "exception" THEN "exception"
    ELSE IF resp.status_code = 200 THEN "ok"
    ELSE "status"

\* Seeded fault: geocode_address is called only when an address was found
\* (if address: coords = geocode_address(..) else: coords = None)
ProcessAddress_SkipGeocode ==
    /\ pc = "row"
    /\ LET school_id == dataset[idx + 1].school_id
       IN  \E resp \in HttpResponses :
             LET r == get_school_address(address_cache, school_id, resp)
             IN  /\ was_cached' = Has(address_cache, school_id)
                 /\ cache_hits' = (IF Has(address_cache, school_id)
                                   THEN cache_hits + 1 ELSE cache_hits)
                 /\ address' = r.ret
                 /\ address_cache' = r.cache
                 /\ http_log' = (IF r.fetched THEN Append(http_log, school_id)
                                 ELSE http_log)
                 /\ last_response' = (IF r.fetched THEN ResponseKind(resp)
                                      ELSE "none")
                 /\ failed_addresses' =
                        (IF Truthy(r.ret) THEN failed_addresses
                         ELSE failed_addresses + 1)
                 /\ IF Truthy(r.ret)
                    THEN /\ pc' = "geocode"
                         /\ UNCHANGED << coords, school_data,
                                         failed_geocoding >>
                    ELSE AfterGeocode(PyNone)
    /\ UNCHANGED << world, files, flushed, geo_locals, run, started_cached, prev_records,
                    coord_cache, idx, geo_hit, geo_log, last_answer, sleeps >>

\* Seeded fault: only None counts as a failed address (if address is None)
ProcessAddress_CountNone ==
    /\ pc = "row"
    /\ LET school_id == dataset[idx + 1].school_id
       IN  \E resp \in HttpResponses :
             LET r == get_school_address(address_cache, school_id, resp)
             IN  /\ was_cached' = Has(address_cache, school_id)
                 /\ cache_hits' = (IF Has(address_cache, school_id)
                                   THEN cache_hits + 1 ELSE cache_hits)
                 /\ address' = (IF r.raised THEN address ELSE r.ret)
                 /\ address_cache' = r.cache
                 /\ http_log' = (IF r.fetched THEN Append(http_log, school_id)
                                 ELSE http_log)
                 /\ last_response' = (IF r.fetched THEN ResponseKind(resp)
                                      ELSE "none")
                 /\ failed_addresses' =
                        (IF r.raised \/ r.ret # PyNone THEN failed_addresses
                         ELSE failed_addresses + 1)
                 /\ pc' = (IF r.raised THEN "aborted" ELSE "geocode")
    /\ UNCHANGED << world, files, flushed, geo_locals, run, started_cached, prev_records,
                    coord_cache, idx,
                    coords, school_data, failed_geocoding, geo_hit, geo_log,
                    last_answer, sleeps >>

\* Seeded fault: a hit is counted when an address comes back, cached or not
ProcessAddress_HitIsAddress ==
    /\ pc = "row"
    /\ LET school_id == dataset[idx + 1].school_id
       IN  \E resp \in HttpResponses :
             LET r == get_school_address(address_cache, school_id, resp)
             IN  /\ was_cached' = Has(address_cache, school_id)
                 /\ cache_hits' = (IF Truthy(r.ret)
                                   THEN cache_hits + 1 ELSE cache_hits)
                 /\ address' = (IF r.raised THEN address ELSE r.ret)
                 /\ address_cache' = r.cache
                 /\ http_log' = (IF r.fetched THEN Append(http_log, school_id)
                                 ELSE http_log)
                 /\ last_response' = (IF r.fetched THEN ResponseKind(resp)
                                      ELSE "none")
                 /\ failed_addresses' =
                        (IF r.raised \/ Truthy(r.ret) THEN failed_addresses
                         ELSE failed_addresses + 1)
                 /\ pc' = (IF r.raised THEN "aborted" ELSE "geocode")
    /\ UNCHANGED << world, files, flushed, geo_locals, run, started_cached, prev_records,
                    coord_cache, idx,
                    coords, school_data, failed_geocoding, geo_hit, geo_log,
                    last_answer, sleeps >>

\* lines 433-445 of main(): was_cached, cache_hits, get_school_address,
\* failed_addresses; an exception that escapes the call ends the process
ProcessAddress ==
    /\ pc = "row"
    /\ LET school_id == dataset[idx + 1].school_id
       IN  \E resp \in HttpResponses :
             LET r == get_school_address(address_cache, school_id, resp)
             IN  /\ was_cached' = Has(address_cache, school_id)
                 /\ cache_hits' = (IF Has(address_cache, school_id)
                                   THEN cache_hits + 1 ELSE cache_hits)
                 /\ address' = (IF r.raised THEN address ELSE r.ret)
                 /\ address_cache' = r.cache
                 /\ http_log' = (IF r.fetched THEN Append(http_log, school_id)
                                 ELSE http_log)
                 /\ last_response' = (IF r.fetched THEN ResponseKind(resp)
                                      ELSE "none")
                 /\ failed_addresses' =
                        (IF r.raised \/ Truthy(r.ret) THEN failed_addresses
                         ELSE failed_addresses + 1)
                 /\ pc' = (IF r.raised THEN "aborted" ELSE "geocode")
    /\ UNCHANGED << world, files, flushed, geo_locals, run, started_cached, prev_records,
                    coord_cache, idx,
                    coords, school_data, failed_geocoding, geo_hit, geo_log,
                    last_answer, sleeps >>

\* geocode_address is called: the cache key, the cache check and, on a
\* miss, the candidate list (lines 98-119)
GeocodeBegin ==
    /\ pc = "geocode"
    /\ LET key == CacheKey(address, dataset[idx + 1].municipality)
       IN  /\ cache_key' = key
           /\ geo_log' = << >>
           /\ last_answer' = NoAnswer
           /\ geo_hit' = CoordCacheHit(coord_cache, key)
           /\ IF CoordCacheHit(coord_cache, key)
              THEN /\ AfterGeocode(CachedCoords(coord_cache, key))
                   /\ search_addresses' = << >>
                   /\ cand' = 0
                   /\ attempt' = 0
              ELSE /\ search_addresses' =
                          SearchAddresses(variant, address,
                                          dataset[idx + 1].municipality)
                   /\ cand' = 1
                   /\ attempt' = 1
                   /\ pc' = "query"
                   /\ UNCHANGED << coords, school_data, failed_geocoding >>
    /\ UNCHANGED << world, files, flushed, run, started_cached, prev_records,
                    address_cache, coord_cache,
                    idx, was_cached, address, failed_addresses, cache_hits,
                    http_log, last_response, sleeps >>

\* one query of the cascade is sent and answered; an exception that escapes
\* geocode_address ends the process, and a query without timeout to a server
\* that stays silent never returns
GeocodeQuery ==
    /\ pc = "query"
    /\ \E ans \in GeocodeAnswers :
         IF ans.kind = "silent" /\ ~GeocodeTimeout(variant).set
         THEN /\ geo_log' = Append(geo_log, search_addresses[cand])
              /\ last_answer' = ans
              /\ pc' = "blocked"
              /\ UNCHANGED << coord_cache, cand, attempt, coords, school_data,
                              failed_geocoding >>
         ELSE
         LET s == GeocodeStep(variant, coord_cache, cache_key,
                              search_addresses, cand, attempt, Seen(ans))
         IN  /\ geo_log' = Append(geo_log, search_addresses[cand])
             /\ last_answer' = Seen(ans)
             /\ coord_cache' = s.cache
             /\ cand' = s.cand
             /\ attempt' = s.attempt
             /\ IF s.raised
                THEN /\ pc' = "aborted"
                     /\ UNCHANGED << coords, school_data, failed_geocoding >>
                ELSE IF s.done
                THEN AfterGeocode(s.ret)
                ELSE /\ pc' = "query"
                     /\ UNCHANGED << coords, school_data, failed_geocoding >>
    /\ UNCHANGED << world, files, flushed, run, started_cached, prev_records,
                    address_cache, idx,
                    was_cached, address, failed_addresses, cache_hits,
                    cache_key, search_addresses, geo_hit, http_log,
                    last_response, sleeps >>

NullKeys(d) == {k \in Keys(d) : Get(d, k) = PyNone}

\* save_address_cache runs to completion (periodic checkpoint or final save)
SaveAddressCache ==
    /\ pc = "save_address_cache"
    /\ address_file' = SaveCache(address_cache)
    /\ pc' = "save_coord_cache"
    /\ UNCHANGED << world, coord_file, flushed, geo_locals, run, started_cached, prev_records,
                    address_cache, coord_cache, idx, was_cached, address,
                    coords, school_data, failed_addresses, failed_geocoding,
                    cache_hits, geo_hit, http_log, last_response, geo_log,
                    last_answer,
                    sleeps >>

\* save_coord_cache runs to completion; after the periodic checkpoint the
\* loop goes on, after the final save (lines 474-476) the run is complete
SaveCoordCache ==
    /\ pc = "save_coord_cache"
    /\ coord_file' = SaveCache(coord_cache)
    /\ IF idx < Len(dataset)
       THEN /\ pc' = "sleep"
            /\ UNCHANGED flushed
       ELSE /\ pc' = "done"
            /\ flushed_null_ids' = flushed_null_ids \cup NullKeys(address_cache)
            /\ flushed_null_keys' = flushed_null_keys \cup NullKeys(coord_cache)
    /\ UNCHANGED << world, address_file, geo_locals, run, started_cached, prev_records,
                    address_cache, coord_cache, idx, was_cached, address,
                    coords, school_data, failed_addresses, failed_geocoding,
                    cache_hits, geo_hit, http_log, last_response, geo_log,
                    last_answer,
                    sleeps >>

\* whether main() sleeps at the end of the iteration: only after a miss of
\* the address cache (Google, line 471), after every row (Nominatim, line 312)
RateLimited(v, cached) == IF v = "google" THEN ~cached ELSE TRUE

\* the end of the loop body: the rate-limit sleep, then the next row or,
\* after the last row, the final save
Sleep ==
    /\ pc = "sleep"
    /\ sleeps' = (IF RateLimited(variant, was_cached) THEN sleeps + 1
                  ELSE sleeps)
    /\ idx' = idx + 1
    /\ pc' = IF idx + 1 < Len(dataset) THEN "row" ELSE "save_address_cache"
    /\ UNCHANGED << world, files, flushed, geo_locals, run, started_cached, prev_records,
                    address_cache, coord_cache, was_cached, address,
                    coords, school_data, failed_addresses, failed_geocoding,
                    cache_hits, geo_hit, http_log, last_response, geo_log,
                    last_answer >>

\* dict.get(key): the value, None for a key that is not there
DictGet(d, k) == IF Has(d, k) THEN Get(d, k) ELSE PyNone

\* the script is started with --map-only: create_map_from_cache up to its
\* loop (the CSV step, SchoolMapper())
MapStart ==
    /\ pc \in {"idle", "done", "aborted", "crashed", "mapped"}
    /\ run < MaxRuns
    /\ run' = run + 1
    /\ LET m == NewMapper(variant, api_key_file, address_file, coord_file)
       IN  /\ address_cache' = (IF m.raised THEN EmptyDict ELSE m.address_cache)
           /\ coord_cache' = (IF m.raised THEN EmptyDict ELSE m.coord_cache)
           /\ pc' = IF m.raised THEN "aborted"
                    ELSE IF Len(dataset) = 0 THEN "mapped"
                    ELSE "map_row"
    /\ started_cached' = FALSE
    /\ prev_records' = CompletedRecords
    /\ FreshLocals
    /\ UNCHANGED << world, files, flushed >>

\* Seeded fault: the loop of create_map_from_cache records an id it does
\* not find as a negative entry of the address cache
MapRow_NegativeEntry ==
    /\ pc = "map_row"
    /\ LET school_id == dataset[idx + 1].school_id
           municipality == dataset[idx + 1].municipality
           a == DictGet(address_cache, school_id)
           key == (IF Truthy(a) THEN a.s ELSE << >>) \o << "|" >> \o municipality
           cached_coords == DictGet(coord_cache, key)
       IN  /\ address' = a
           /\ address_cache' = (IF Has(address_cache, school_id)
                                THEN address_cache
                                ELSE Put(address_cache, school_id, PyNone))
           /\ IF ~Truthy(a)
              THEN UNCHANGED << cache_key, coords, school_data >>
              ELSE /\ cache_key' = key
                   /\ coords' = cached_coords
                   /\ school_data' =
                          (IF Truthy(cached_coords)
                           THEN Append(school_data,
                                  [school_id |-> school_id,
                                   municipality |-> municipality,
                                   address |-> a.s,
                                   latitude |-> cached_coords.lat,
                                   longitude |-> cached_coords.lng])
                           ELSE school_data)
    /\ idx' = idx + 1
    /\ pc' = IF idx + 1 < Len(dataset) THEN "map_row" ELSE "mapped"
    /\ UNCHANGED << world, files, flushed, run, started_cached, prev_records, coord_cache,
                    was_cached, failed_addresses, failed_geocoding,
                    cache_hits, search_addresses, cand, attempt, geo_hit,
                    http_log, last_response, geo_log, last_answer, sleeps >>

\* one iteration of the loop of create_map_from_cache: the row is skipped
\* unless the address cache has an address for its id and the coordinate
\* cache has coordinates for that address and the municipality
MapRow ==
    /\ pc = "map_row"
    /\ LET school_id == dataset[idx + 1].school_id
           municipality == dataset[idx + 1].municipality
           a == DictGet(address_cache, school_id)
           key == (IF Truthy(a) THEN a.s ELSE << >>) \o << "|" >> \o municipality
           cached_coords == DictGet(coord_cache, key)
       IN  /\ address' = a
           /\ IF ~Truthy(a)
              THEN UNCHANGED << cache_key, coords, school_data >>
              ELSE /\ cache_key' = key
                   /\ coords' = cached_coords
                   /\ school_data' =
                          (IF Truthy(cached_coords)
                           THEN Append(school_data,
                                  [school_id |-> school_id,
                                   municipality |-> municipality,
                                   address |-> a.s,
                                   latitude |-> cached_coords.lat,
                                   longitude |-> cached_coords.lng])
                           ELSE school_data)
    /\ idx' = idx + 1
    /\ pc' = IF idx + 1 < Len(dataset) THEN "map_row" ELSE "mapped"
    /\ UNCHANGED << world, files, flushed, run, started_cached, prev_records,
                    address_cache, coord_cache, was_cached, failed_addresses,
                    failed_geocoding, cache_hits, search_addresses, cand,
                    attempt, geo_hit, http_log, last_response, geo_log,
                    last_answer, sleeps >>

\* the process is gone, and its memory with it
Killed ==
    /\ pc' = "crashed"
    /\ address_cache' = EmptyDict
    /\ coord_cache' = EmptyDict
    /\ FreshLocals
    /\ started_cached' = FALSE
    /\ prev_records' = NoRecords
    /\ UNCHANGED << world, flushed, run >>

\* the process is killed (signal, power loss) outside a file write
Crash ==
    /\ pc \in Running \cup {"blocked"}
    /\ Killed
    /\ UNCHANGED files

\* the process is killed inside save_address_cache, after open(.., 'w')
CrashInSaveAddress ==
    /\ pc = "save_address_cache"
    /\ address_file' \in PartialWrites(address_cache)
    /\ Killed
    /\ UNCHANGED coord_file

\* the process is killed inside save_coord_cache, after open(.., 'w')
CrashInSaveCoord ==
    /\ pc = "save_coord_cache"
    /\ coord_file' \in PartialWrites(coord_cache)
    /\ Killed
    /\ UNCHANGED address_file

\* google_maps_api_key.txt is removed while no process runs
RemoveApiKey ==
    /\ pc \in {"idle", "done", "aborted", "crashed"}
    /\ variant = "google"
    /\ api_key_file = "present"
    /\ api_key_file' = "missing"
    /\ UNCHANGED << variant, dataset, aside, files, flushed, geo_locals,
                    pc, run,
                    started_cached, prev_records, address_cache, coord_cache, idx,
                    was_cached, address, coords, school_data,
                    failed_addresses, failed_geocoding, cache_hits, geo_hit,
                    http_log, last_response, geo_log, last_answer, sleeps >>

Next ==
    \/ Start
    \/ RemoveApiKey
    \/ MapStart
    \/ MapRow
    \/ ProcessAddress
    \/ GeocodeBegin
    \/ GeocodeQuery
    \/ SaveAddressCache
    \/ SaveCoordCache
    \/ Sleep
    \/ Crash
    \/ CrashInSaveAddress
    \/ CrashInSaveCoord

Spec == Init /\ [][Next]_vars

\* a dataset long enough for the periodic checkpoint to come round again:
\* two schools, the second met once between the first two checkpoints
LongDataset ==
    [i \in 1..LongRows |->
        IF i = 2 THEN [school_id |-> "s2", municipality |-> Kiruna]
        ELSE [school_id |-> "s1", municipality |-> Uppsala]]

InitCheckpoint ==
    /\ variant \in {"google", "nominatim"}
    /\ api_key_file = (IF variant = "google" THEN "present" ELSE "missing")
    /\ csv_rows = CanonCsv(LongDataset)
    /\ top = DefaultTop
    /\ page_text = << >>
    /\ scan_line = -1
    /\ schools_data = << >>
    /\ schools_json = NoFile
    /\ grades_csv = NoFile
    /\ merit_values = << >>
    /\ buckets = << >>
    /\ dataset = (IF variant = "nominatim" /\ LongRows > HeadRows
                  THEN SubSeq(LongDataset, 1, HeadRows) ELSE LongDataset)
    /\ address_file = NoFile
    /\ coord_file = NoFile
    /\ pc = "idle"
    /\ run = 0
    /\ started_cached = FALSE
    /\ prev_records = NoRecords
    /\ address_cache = EmptyDict
    /\ coord_cache = EmptyDict
    /\ idx = 0
    /\ was_cached = FALSE
    /\ address = PyNone
    /\ coords = PyNone
    /\ school_data = << >>
    /\ failed_addresses = 0
    /\ failed_geocoding = 0
    /\ cache_hits = 0
    /\ cache_key = << >>
    /\ search_addresses = << >>
    /\ cand = 0
    /\ attempt = 0
    /\ geo_hit = FALSE
    /\ http_log = << >>
    /\ last_response = "none"
    /\ geo_log = << >>
    /\ last_answer = NoAnswer
    /\ sleeps = 0
    /\ flushed_null_ids = {}
    /\ flushed_null_keys = {}

\* uninterrupted runs of main() over the long dataset
NextCheckpoint ==
    \/ Start
    \/ ProcessAddress
    \/ GeocodeBegin
    \/ GeocodeQuery
    \/ SaveAddressCache
    \/ SaveCoordCache
    \/ Sleep

SpecCheckpoint == InitCheckpoint /\ [][NextCheckpoint]_vars

\* no process has run yet: no cache file, nothing in memory
NotStarted ==
    /\ address_file = NoFile
    /\ coord_file = NoFile
    /\ pc = "idle"
    /\ run = 0
    /\ started_cached = FALSE
    /\ prev_records = NoRecords
    /\ address_cache = EmptyDict
    /\ coord_cache = EmptyDict
    /\ idx = 0
    /\ was_cached = FALSE
    /\ address = PyNone
    /\ coords = PyNone
    /\ school_data = << >>
    /\ failed_addresses = 0
    /\ failed_geocoding = 0
    /\ cache_hits = 0
    /\ cache_key = << >>
    /\ search_addresses = << >>
    /\ cand = 0
    /\ attempt = 0
    /\ geo_hit = FALSE
    /\ http_log = << >>
    /\ last_response = "none"
    /\ geo_log = << >>
    /\ last_answer = NoAnswer
    /\ sleeps = 0
    /\ flushed_null_ids = {}
    /\ flushed_null_keys = {}

\* the rows a CSV file is drawn from, and the files
CsvFiles ==
    LET CsvRowSet ==
            {[school_id |-> s.school_id, municipality |-> s.municipality,
              merit |-> m] : s \in Schools, m \in {NaN, Merit(1), Merit(2)}}
    IN  UNION {[1..n -> CsvRowSet] : n \in 0..MaxCsvRows}

\* the script is started with --top n on a CSV file
InitSelect ==
    /\ variant \in {"google", "nominatim"}
    /\ api_key_file = (IF variant = "google" THEN "present" ELSE "missing")
    /\ csv_rows \in CsvFiles
    /\ top \in {1, 2, DefaultTop}
    /\ page_text = << >>
    /\ scan_line = -1
    /\ schools_data = << >>
    /\ schools_json = NoFile
    /\ grades_csv = NoFile
    /\ merit_values = << >>
    /\ buckets = << >>
    /\ dataset = << >>
    /\ NotStarted

\* lines 381-398 of main(): the CSV is read and schools_with_merit built
ReadCsv ==
    /\ pc = "idle"
    /\ run = 0
    /\ LET rows == SchoolsWithMerit(variant, csv_rows)
       IN  dataset' = [i \in 1..Len(rows) |->
                          [school_id |-> rows[i].school_id,
                           municipality |-> rows[i].municipality]]
    /\ pc' = "selected"
    /\ UNCHANGED << variant, api_key_file, aside, files, flushed, geo_locals,
                    run, started_cached, prev_records, address_cache, coord_cache, idx,
                    was_cached, address, coords, school_data,
                    failed_addresses, failed_geocoding, cache_hits, geo_hit,
                    http_log, last_response, geo_log, last_answer, sleeps >>

SpecSelect == InitSelect /\ [][ReadCsv]_vars

TypeOK ==
    /\ pc \in Running \cup {"idle", "done", "aborted", "crashed", "selected",
                          "map_row", "mapped", "extracted", "blocked",
                          "got_schools", "saved", "save_raised",
                          "coloured", "colour_raised"}
    /\ idx \in 0..Len(dataset)
    /\ run \in 0..MaxRuns

-----------------------------------------------------------------------------
(* Properties *)

\* the row the loop body is working on
Row == dataset[idx + 1]

\* geocode_address has returned for the current row
GeocodeReturned ==
    /\ pc \in {"save_address_cache", "save_coord_cache", "sleep"}
    /\ idx < Len(dataset)

\* "{municipality}, Sweden"
MunicipalityQuery(municipality) ==
    municipality \o << ",", " ", "S", "w", "e", "d", "e", "n" >>

\* C1: a call of get_school_address for an id that is a key of the address
\* cache, whatever the value (None included), returns the stored value,
\* issues no GET and leaves the cache as it was.
C1_AddressCacheHit ==
    [][(pc = "row" /\ pc' = "geocode" /\ Has(address_cache, Row.school_id))
         => /\ address' = Get(address_cache, Row.school_id)
            /\ http_log' = http_log
            /\ address_cache' = address_cache]_vars

\* a second lookup, in the same run, of an id whose first lookup cached None
C1_Witness ==
    /\ pc = "geocode"
    /\ idx = 1
    /\ dataset[1].school_id = dataset[2].school_id
    /\ was_cached
    /\ address = PyNone
    /\ http_log = << dataset[1].school_id >>

\* C2: a call of geocode_address whose composite key is in the coordinate
\* cache returns the cached pair, or None for a cached failure, sends no
\* query and leaves the cache as it was.
C2_CoordCacheHit ==
    [][(/\ pc = "geocode"
        /\ pc' # "crashed"
        /\ Has(coord_cache, CacheKey(address, Row.municipality)))
         => LET cached == Get(coord_cache, CacheKey(address, Row.municipality))
            IN  /\ pc' # "query"
                /\ geo_log' = << >>
                /\ coord_cache' = coord_cache
                /\ coords' = (IF cached = PyNone THEN PyNone
                              ELSE PyTuple(cached.lat, cached.lng))]_vars

\* a call served from a cached failure
C2_Witness ==
    /\ GeocodeReturned
    /\ geo_hit
    /\ Has(coord_cache, cache_key)
    /\ Get(coord_cache, cache_key) = PyNone
    /\ coords = PyNone
    /\ geo_log = << >>

\* C3: when get_school_address has returned for an id that was not in the
\* address cache, the id is a key of the cache and its value is the value
\* returned, whatever the outcome of the request.
C3_AddressAlwaysCached ==
    (pc = "geocode" /\ ~was_cached)
      => /\ Has(address_cache, Row.school_id)
         /\ Get(address_cache, Row.school_id) = address

\* a lookup that fetched and found nothing
C3_Witness ==
    /\ pc = "geocode"
    /\ ~was_cached
    /\ http_log # << >>
    /\ address = PyNone
    /\ Get(address_cache, Row.school_id) = PyNone

\* C4: no GET is issued for an id, and no query sent for a composite key,
\* that a run which completed its final save had recorded as None.
C4_NoRetryAcrossRuns ==
    [][/\ Len(http_log') > Len(http_log)
            => http_log'[Len(http_log')] \notin flushed_null_ids
       /\ Len(geo_log') > Len(geo_log)
            => cache_key \notin flushed_null_keys]_vars

\* a later run looks up an id and a key that an earlier run recorded as None
C4_Witness ==
    /\ run = 2
    /\ GeocodeReturned
    /\ Row.school_id \in flushed_null_ids
    /\ cache_key \in flushed_null_keys
    /\ http_log = << >>
    /\ geo_log = << >>

\* C5: loading a cache never fails: a start-up is only ever aborted for
\* the missing API key, not for the contents of a cache file.
C5_LoadFailsSoft ==
    pc = "aborted" => ~ApiKeyLoaded(variant, api_key_file)

\* C6: a cache file that exists holds a complete document, also after the
\* process died inside save_address_cache or save_coord_cache.
C6_FlushAtomic ==
    /\ address_file.exists => JsonValid(address_file.data)
    /\ coord_file.exists => JsonValid(coord_file.data)

\* C7: saving a cache and loading the file gives back the same mapping, with
\* the keys whose value is None still present.
C7_RoundTrip ==
    /\ LoadCache(SaveCache(address_cache))
         = [raised |-> FALSE, dict |-> address_cache]
    /\ LoadCache(SaveCache(coord_cache))
         = [raised |-> FALSE, dict |-> coord_cache]
    /\ pc = "done" => /\ LoadCache(address_file).dict = address_cache
                      /\ LoadCache(coord_file).dict = coord_cache

\* both caches saved by a complete run, each with a None and a non-None value
C7_Witness ==
    /\ pc = "done"
    /\ NullKeys(address_cache) # {}
    /\ NullKeys(address_cache) # Keys(address_cache)
    /\ NullKeys(coord_cache) # {}
    /\ NullKeys(coord_cache) # Keys(coord_cache)

\* C8: the candidates are queried in list order, and the first result ends
\* the cascade: its coordinate is returned and no further query is sent.
C8_FirstSuccessWins ==
    /\ \A i \in 1..Len(geo_log) :
         /\ (i - 1) \div Attempts(variant) + 1 <= Len(search_addresses)
         /\ geo_log[i] = search_addresses[(i - 1) \div Attempts(variant) + 1]
    /\ last_answer.kind = "result"
         => /\ pc # "query"
            /\ coords = PyTuple(last_answer.loc[1], last_answer.loc[2])

\* of three candidates the first failed and the second gave a result: the
\* call has returned it and the third was not queried
C8_Witness ==
    /\ variant = "google"
    /\ GeocodeReturned
    /\ Len(search_addresses) = 3
    /\ Len(geo_log) = 2
    /\ last_answer.kind = "result"
    /\ coords = PyTuple(last_answer.loc[1], last_answer.loc[2])

\* C9: with no address, the candidate list of geocode_address is the single
\* query "{municipality}, Sweden": nothing else is sent (once by Google, at
\* most twice by the Nominatim retry), and a result is returned and cached.
C9_MunicipalityFallback ==
    ((pc = "query" \/ GeocodeReturned) /\ ~geo_hit /\ ~Truthy(address))
      => /\ search_addresses = << MunicipalityQuery(Row.municipality) >>
         /\ \A i \in 1..Len(geo_log) :
              geo_log[i] = MunicipalityQuery(Row.municipality)
         /\ Len(geo_log) <= Attempts(variant)
         /\ last_answer.kind = "result"
              => /\ coords = PyTuple(last_answer.loc[1], last_answer.loc[2])
                 /\ Get(coord_cache, cache_key)
                      = PyList(last_answer.loc[1], last_answer.loc[2])

\* the page gave no address and the one municipality query gave a result
C9_Witness ==
    /\ GeocodeReturned
    /\ ~geo_hit
    /\ address = PyNone
    /\ geo_log = << MunicipalityQuery(Row.municipality) >>
    /\ last_answer.kind = "result"
    /\ Truthy(coords)

\* C10: when geocode_address has returned for a key that was not in the
\* coordinate cache, the key is in the cache: with None, and None was
\* returned, if every candidate failed; with the pair returned otherwise.
C10_CoordAlwaysCached ==
    (GeocodeReturned /\ ~geo_hit)
      => /\ Has(coord_cache, cache_key)
         /\ cache_key = CacheKey(address, Row.municipality)
         /\ IF last_answer.kind = "result"
            THEN /\ Truthy(coords)
                 /\ Get(coord_cache, cache_key) = PyList(coords.lat, coords.lng)
            ELSE /\ coords = PyNone
                 /\ Get(coord_cache, cache_key) = PyNone
                 /\ Len(geo_log) = Len(search_addresses) * Attempts(variant)

\* every candidate of a known address failed
C10_Witness ==
    /\ GeocodeReturned
    /\ ~geo_hit
    /\ Truthy(address)
    /\ Len(geo_log) = Len(search_addresses) * Attempts(variant)
    /\ last_answer.kind # "result"
    /\ coords = PyNone
    /\ Get(coord_cache, cache_key) = PyNone

\* the step in which geocode_address returns to main() and lines 450-463 run
GeocodeReturns ==
    /\ pc \in {"geocode", "query"}
    /\ pc' \in {"save_address_cache", "sleep"}

\* the record lines 451-459 build for the current row from coordinate c
EnrichedRecord(c) ==
    [school_id |-> Row.school_id,
     municipality |-> Row.municipality,
     address |-> (IF Truthy(address) THEN address.s ELSE Row.municipality),
     latitude |-> c.lat,
     longitude |-> c.lng]

\* C11 as stated: a row becomes an enriched record if and only if both
\* stages succeeded for it, an address was found and a coordinate obtained.
C11_BothStagesNeeded ==
    [][GeocodeReturns
         => (Len(school_data') = Len(school_data) + 1
               <=> (Truthy(address) /\ Truthy(coords')))]_vars

\* C11, amended: a row becomes an enriched record if and only if a coordinate
\* was obtained for it, whether or not its address was found (the
\* municipality then stands for the address); every other row leaves the
\* output as it was, and no other step of the pipeline adds a record.
C11_CoordinateDecides ==
    [][/\ GeocodeReturns
            => IF Truthy(coords')
               THEN school_data' = Append(school_data, EnrichedRecord(coords'))
               ELSE school_data' = school_data
       /\ (pc \in Running /\ ~GeocodeReturns)
            => (school_data' = school_data \/ school_data' = << >>)]_vars

\* a row whose address was not found has become an enriched record
C11_Witness ==
    /\ GeocodeReturned
    /\ ~Truthy(address)
    /\ Truthy(coords)
    /\ school_data # << >>
    /\ school_data[Len(school_data)].school_id = Row.school_id
    /\ school_data[Len(school_data)].address = Row.municipality
    /\ failed_addresses > 0

\* C12: geocode_address is called for every processed row, also when the
\* address resolved to None (the loop goes from the address lookup to the
\* call, the call is made for this row's address and municipality, and the
\* index only advances after it), and a record is appended for the row if
\* and only if the call returned a coordinate.
C12_AlwaysGeocoded ==
    [][/\ (pc = "row" /\ pc' # "crashed") => pc' = "geocode"
       /\ (pc = "geocode" /\ pc' # "crashed")
            => cache_key' = CacheKey(address, Row.municipality)
       /\ (pc \in Running /\ idx' = idx + 1) => pc = "sleep"
       /\ pc' = "sleep" => pc \in {"geocode", "query", "save_coord_cache"}
       /\ GeocodeReturns
            => (Len(school_data') = Len(school_data) + 1
                  <=> Truthy(coords'))]_vars

\* geocode_address was called for a row without address, sent its only
\* candidate and returned None: the row is counted and no record appended
C12_Witness ==
    /\ GeocodeReturned
    /\ address = PyNone
    /\ cache_key = CacheKey(PyNone, Row.municipality)
    /\ geo_log # << >>
    /\ coords = PyNone
    /\ school_data = << >>
    /\ failed_geocoding = 1

\* the current row was served by both caches: no GET, no geocoding query
ServedFromCache == was_cached /\ geo_hit

\* C13 as stated, for every variant: main() sleeps at the end of a row only
\* if the row missed a cache and went to the network, and a row served from
\* the caches is followed by no sleep.
C13_SleepOnlyAfterFetch ==
    [][(pc = "sleep" /\ idx' = idx + 1)
         => /\ sleeps' = sleeps + 1
                 => (last_response # "none" \/ geo_log # << >>)
            /\ ServedFromCache => sleeps' = sleeps]_vars

\* each cache file holds what json.dump writes for the cache in memory
FilesCurrent ==
    /\ address_file = SaveCache(address_cache)
    /\ coord_file = SaveCache(coord_cache)

\* C14: in an uninterrupted run both caches are saved after every row whose
\* index is a multiple of K (100 in the Google variant, 50 in the Nominatim
\* variant), hence at least once every K rows, and once more after the last
\* row: just after such a checkpoint, and when the loop has ended, each
\* cache file equals the cache in memory.
C14_Checkpoints ==
    /\ (variant = "google" /\ pc = "sleep" /\ idx % 100 = 0) => FilesCurrent
    /\ (variant = "nominatim" /\ pc = "sleep" /\ idx % 50 = 0) => FilesCurrent
    /\ pc = "done" => (idx = Len(dataset) /\ FilesCurrent)

\* the second periodic checkpoint of a Google run has just been written, with
\* the entries of a school first met after the first checkpoint
C14_Witness ==
    /\ variant = "google"
    /\ run = 1
    /\ pc = "sleep"
    /\ idx = 100
    /\ Has(address_cache, "s2")
    /\ Has(coord_cache, CacheKey(Get(address_cache, "s2"), Kiruna))
    /\ FilesCurrent

\* C15: in the Google Maps variant with the API key file missing, no process
\* is ever inside the row loop, and a start ends at once with the error
\* reported (the ValueError of __init__, caught and printed by main()): no
\* address page is fetched, no geocoding query is sent, neither cache file
\* is written and no record is produced.
C15_NoKeyNoRun ==
    [][(variant = "google" /\ api_key_file = "missing")
         => /\ pc \notin Running
            /\ pc' \notin Running \cup {"done"}
            /\ run' # run
                 => /\ pc' = "aborted"
                    /\ address_file' = address_file
                    /\ coord_file' = coord_file
                    /\ http_log' = << >>
                    /\ geo_log' = << >>
                    /\ school_data' = << >>]_vars

\* a start without the key file has been refused, with the cache files of
\* an earlier complete run still in place
C15_Witness ==
    /\ variant = "google"
    /\ api_key_file = "missing"
    /\ pc = "aborted"
    /\ run = 2
    /\ address_file.exists
    /\ coord_file.exists
    /\ JsonValid(address_file.data)
    /\ http_log = << >>

\* C16: when the fetch of the address page ended in a status code other than
\* 200 or in an exception of the transport, get_school_address returned None
\* to main() and the process was not ended by an exception: the loop goes on
\* with address = None.
C16_FetchFailureIsNone ==
    last_response \in {"status", "exception"}
        => /\ address = PyNone
           /\ pc \in Running \cup {"done", "blocked"}
           /\ http_log # << >>

\* session.get raised for the current row, and main() is about to call
\* geocode_address with address None
C16_Witness ==
    /\ pc = "geocode"
    /\ last_response = "exception"
    /\ address = PyNone
    /\ http_log[Len(http_log)] = Row.school_id
    /\ failed_addresses = idx + 1

\* C17: when the provider raised an error for a query, the error did not
\* leave geocode_address: either the cascade goes on with the query that
\* follows the failed one (the next attempt of the candidate, or the first
\* attempt of the next candidate), or the failed query was the last one and
\* geocode_address returned None to main().
C17_ProviderErrorSwallowed ==
    last_answer.kind = "error"
        => /\ pc \in Running \cup {"done"}
           /\ pc = "query"
                => /\ cand \in 1..Len(search_addresses)
                   /\ attempt \in 1..Attempts(variant)
                   /\ Len(geo_log)
                        = (cand - 1) * Attempts(variant) + attempt - 1
           /\ pc # "query"
                => /\ Len(geo_log)
                        = Len(search_addresses) * Attempts(variant)
                   /\ coords = PyNone

\* the provider raised for the first candidate and the cascade is about to
\* send the second one
C17_Witness ==
    /\ pc = "query"
    /\ last_answer.kind = "error"
    /\ cand = 2
    /\ attempt = 1
    /\ geo_log # << >>
    /\ geo_log[Len(geo_log)] = search_addresses[1]

\* the keys json.load finds in a cache file (none if the file is absent or
\* is not a JSON document)
FileKeys(file) == Keys(LoadCache(file).dict)

\* C18: no step of a resolver call, of a flush or of a start that loads the
\* caches removes a key: each cache file keeps the keys it held, and so does
\* each cache in memory, both while a process runs and when the next process
\* takes over from one that has ended.  (Steps in which a process is killed
\* are not resolver calls or flushes; what an interrupted flush leaves is
\* the subject of C6.)
C18_KeysOnlyGrow ==
    [][pc' # "crashed"
         => /\ FileKeys(address_file) \subseteq FileKeys(address_file')
            /\ FileKeys(coord_file) \subseteq FileKeys(coord_file')
            /\ pc' # "aborted"
                 => /\ Keys(address_cache) \subseteq Keys(address_cache')
                    /\ Keys(coord_cache) \subseteq Keys(coord_cache')]_vars

\* a second run has loaded what the first one saved, added the entries of a
\* school the first one did not reach, and saved both caches
C18_Witness ==
    /\ run = 2
    /\ pc = "done"
    /\ cache_hits = 1
    /\ Len(http_log) = 1
    /\ Len(address_cache) = 2
    /\ FileKeys(address_file) = Keys(address_cache)
    /\ FileKeys(coord_file) = Keys(coord_cache)
    /\ Cardinality(FileKeys(coord_file)) = 2

\* C19 as stated: a run that found every id of the dataset in the address
\* cache and every composite key in the coordinate cache when it started
\* fetches no address page, sends no geocoding query and never sleeps for
\* the rate limit.
C19_CachedRerunIsFree ==
    (started_cached /\ dataset # << >>)
        => /\ http_log = << >>
           /\ geo_log = << >>
           /\ sleeps = 0

\* rows of the current run whose outcome has been decided
RowsDecided == IF GeocodeReturned THEN idx + 1 ELSE idx

\* C20: within a run the loop index only moves forward, one row at a time,
\* so every row is handled once and a dropped row is not taken up again;
\* each handled row is either appended to school_data or counted in
\* failed_geocoding, never both and never neither, so the two together
\* number the rows handled, and all rows of the dataset when the run is done.
C20_OneOutcomePerRow ==
    [][/\ pc' \in Running \cup {"done"}
            => /\ Len(school_data') + failed_geocoding' = RowsDecided'
               /\ pc' = "done" => idx' = Len(dataset')
       /\ (run' = run /\ pc' # "crashed") => idx' \in {idx, idx + 1}
       /\ GeocodeReturns
            => \/ /\ Len(school_data') = Len(school_data) + 1
                  /\ failed_geocoding' = failed_geocoding
               \/ /\ school_data' = school_data
                  /\ failed_geocoding' = failed_geocoding + 1]_vars

\* a run over two rows has ended with one row enriched and one dropped
C20_Witness ==
    /\ pc = "done"
    /\ Len(dataset) = 2
    /\ idx = 2
    /\ Len(school_data) = 1
    /\ failed_geocoding = 1

\* the number of rows of the CSV file that have a merit value
ValidRows == Len(NotNa(csv_rows))

\* C21 as stated: with --top N the loop is given the N best schools, or all
\* schools with a merit value when there are fewer than N.
C21_TopLimits ==
    pc = "selected"
        => Len(dataset) = (IF top < ValidRows THEN top ELSE ValidRows)

\* C22: while create_map_from_cache runs and when it has ended, no address
\* page has been fetched and no geocoding query sent, and each cache in
\* memory is still the dict that json.load gives for its file: neither the
\* caches nor the files have been written.
C22_MapOnlyReadsOnly ==
    pc \in {"map_row", "mapped"}
        => /\ http_log = << >>
           /\ geo_log = << >>
           /\ address_cache = LoadCache(address_file).dict
           /\ coord_cache = LoadCache(coord_file).dict
           /\ ~LoadCache(address_file).raised
           /\ ~LoadCache(coord_file).raised

\* cache-only mode has gone through two rows on the caches of an earlier
\* run, emitted one and skipped the other, whose id or key the caches lack
\* or hold as None
C22_Witness ==
    /\ pc = "mapped"
    /\ run = 2
    /\ Len(dataset) = 2
    /\ Len(school_data) = 1
    /\ address_file.exists
    /\ coord_file.exists
    /\ Len(address_cache) = 2

\* "{address}, {municipality}, Sweden"
FullQuery(addr, municipality) ==
    addr \o << ",", " " >> \o MunicipalityQuery(municipality)

\* "{address}, Sweden"
CountryQuery(addr) == addr \o << ",", " ", "S", "w", "e", "d", "e", "n" >>

\* the queries geocode_address has sent are the candidates in list order,
\* each as often as the variant attempts it
SentInListOrder ==
    \A j \in 1..Len(geo_log) :
        /\ (j - 1) \div Attempts(variant) + 1 <= Len(search_addresses)
        /\ geo_log[j] = search_addresses[(j - 1) \div Attempts(variant) + 1]

\* C23 as stated: with an address, the third candidate is the municipality
\* alone and the street-name candidate, where there is one, is the fourth.
C23_StreetNameFourth ==
    (pc = "query" /\ Truthy(address))
        => /\ Len(search_addresses) \in {3, 4}
           /\ search_addresses[1] = FullQuery(address.s, Row.municipality)
           /\ search_addresses[2] = CountryQuery(address.s)
           /\ search_addresses[3] = MunicipalityQuery(Row.municipality)
           /\ Len(search_addresses) = 4
                => search_addresses[4] =
                       FullQuery(FirstToken(address.s), Row.municipality)
           /\ SentInListOrder

\* C23, amended: with an address, the candidates are "{address},
\* {municipality}, Sweden", then "{address}, Sweden", then, in the Nominatim
\* variant only, the street-name candidate (first token of the address and
\* the municipality), and last, in both variants, the municipality alone;
\* the queries are sent in that order.
C23_MunicipalityLast ==
    (pc = "query" /\ Truthy(address))
        => /\ search_addresses[1] = FullQuery(address.s, Row.municipality)
           /\ search_addresses[2] = CountryQuery(address.s)
           /\ IF variant = "google"
              THEN /\ Len(search_addresses) = 3
                   /\ search_addresses[3] = MunicipalityQuery(Row.municipality)
              ELSE /\ Len(search_addresses) = 4
                   /\ search_addresses[3] =
                          FullQuery(FirstToken(address.s), Row.municipality)
                   /\ search_addresses[4] = MunicipalityQuery(Row.municipality)
           /\ SentInListOrder

\* the Nominatim cascade has sent the street-name candidate, third in its
\* list, and is about to send the municipality
C23_Witness ==
    /\ variant = "nominatim"
    /\ pc = "query"
    /\ Truthy(address)
    /\ cand = 4
    /\ Len(geo_log) = 6
    /\ geo_log[5] = FullQuery(FirstToken(address.s), Row.municipality)
    /\ FirstToken(address.s) # address.s

\* C24: a candidate is attempted at most twice (Nominatim) or exactly once
\* (Google) before the cascade moves on, so one geocode_address call issues
\* at most 8 queries (Nominatim, address known), 3 (Google, address known),
\* and at most 2 resp. 1 when no address is known.
C24_BoundedAttempts ==
    pc # "geocode"
        => /\ pc = "query"
                => attempt \in (IF variant = "nominatim" THEN {1, 2} ELSE {1})
           /\ Len(geo_log) <=
                  (IF variant = "nominatim"
                   THEN (IF Truthy(address) THEN 8 ELSE 2)
                   ELSE (IF Truthy(address) THEN 3 ELSE 1))
           /\ variant = "google"
                => \A i, j \in 1..Len(geo_log) :
                       geo_log[i] = geo_log[j] => i = j

\* a Nominatim call with a known address has sent all eight queries
C24_Witness ==
    /\ variant = "nominatim"
    /\ Truthy(address)
    /\ GeocodeReturned
    /\ Len(geo_log) = 8
    /\ coords = PyNone

-----------------------------------------------------------------------------
(* get_school_address on its own: one call on an empty cache, for pages
   made of a few lines *)

\* '\n'.join(lines)
RECURSIVE JoinLines(_)
JoinLines(lines) ==
    IF Len(lines) = 0 THEN << >>
    ELSE IF Len(lines) = 1 THEN lines[1]
    ELSE lines[1] \o << "\n" >> \o JoinLines(Tail(lines))

\* the texts soup.get_text() gives for pages of at most MaxLines lines.  The
\* lines a page is made of: the label, the label with blanks around it, a
\* next line of three characters and a blank, one of four characters, the
\* label with an address on the same line, and the empty line
LinePages ==
    LET PageLines ==
            {<< "A", "d", "r", "e", "s", "s" >>,
             << " ", "A", "d", "r", "e", "s", "s", " " >>,
             << "A", "b", "c", " " >>,
             << " ", "A", "b", "c", "d" >>,
             << "A", "d", "r", "e", "s", "s", ":", " ", "A", "b" >>,
             << >>}
    IN  {JoinLines(ls) : ls \in UNION {[1..n -> PageLines] : n \in 1..MaxLines}}

\* what session.get can give for a page with this text
PageResponses(text) ==
    {[kind |-> "response", status_code |-> 200, text |-> text],
     [kind |-> "response", status_code |-> 404, text |-> << >>],
     [kind |-> "exception", status_code |-> 0, text |-> << >>]}

InitExtract ==
    /\ variant \in {"google", "nominatim"}
    /\ api_key_file = (IF variant = "google" THEN "present" ELSE "missing")
    /\ dataset = << [school_id |-> "s1", municipality |-> Uppsala] >>
    /\ csv_rows = CanonCsv(dataset)
    /\ top = DefaultTop
    /\ page_text \in LinePages
    /\ scan_line = -1
    /\ schools_data = << >>
    /\ schools_json = NoFile
    /\ grades_csv = NoFile
    /\ merit_values = << >>
    /\ buckets = << >>
    /\ NotStarted

\* get_school_address("s1") is called on the empty cache (lines 60-96)
Extract ==
    /\ pc = "idle"
    /\ run = 0
    /\ \E resp \in PageResponses(page_text) :
         LET r == get_school_address(address_cache, "s1", resp)
         IN  /\ address' = r.ret
             /\ address_cache' = r.cache
             /\ http_log' = (IF r.fetched THEN Append(http_log, "s1")
                             ELSE http_log)
             /\ last_response' = ResponseKind(resp)
             /\ scan_line' = (IF ResponseKind(resp) = "ok"
                              THEN ScanIndex(SplitLines(resp.text)) ELSE -1)
             /\ pc' = "extracted"
    /\ UNCHANGED << variant, api_key_file, dataset, csv_rows, top, page_text,
                    schools_data, schools_json, grades_csv, merit_values,
                    buckets,
                    files, flushed, geo_locals, run, started_cached, prev_records,
                    coord_cache, idx, was_cached, coords, school_data,
                    failed_addresses, failed_geocoding, cache_hits, geo_hit,
                    geo_log, last_answer, sleeps >>

SpecExtract == InitExtract /\ [][Extract]_vars

\* C25: in the line scan, the line after a label line (a label line being
\* one that is the label once trimmed and has a following line) is accepted
\* as the address only if its trimmed length exceeds 3; a label line whose
\* next line is shorter is passed over and the scan goes on, so the scan
\* returns at the first label line whose next line is long enough, with that
\* line trimmed, and returns nowhere if there is no such label line.
C25_ScanThreshold ==
    (pc = "extracted" /\ last_response = "ok")
        => LET lines == SplitLines(page_text)
               labelled == {i \in 1..(Len(lines) - 1) : Strip(lines[i]) = Label}
               accepted == {i \in labelled : Len(Strip(lines[i + 1])) > 3}
           IN  /\ accepted = {} => scan_line = -1
               /\ accepted # {}
                    => /\ scan_line + 1 \in accepted
                       /\ \A i \in accepted : scan_line + 1 <= i
                       /\ address = PyStr(Strip(lines[scan_line + 2]))

\* the scan passed over a label line whose next line has three characters
\* once trimmed, and returned at a later label line
C25_Witness ==
    /\ pc = "extracted"
    /\ last_response = "ok"
    /\ LET lines == SplitLines(page_text)
       IN  /\ Len(lines) = 4
           /\ lines[1] = Label
           /\ Len(lines[2]) = 4
           /\ Len(Strip(lines[2])) = 3
           /\ scan_line = 2
           /\ address = PyStr(<< "A", "b", "c", "d" >>)

\* C26: whenever the line scan accepts an address, that address is returned
\* and cached, whatever the regex would match; the regex result is returned
\* only for a 200 page on which the line scan accepted nothing.
C26_RegexOnlyAsFallback ==
    pc = "extracted"
        => LET lines == SplitLines(page_text)
           IN  /\ scan_line # -1
                    => /\ address = PyStr(Strip(lines[scan_line + 2]))
                       /\ Get(address_cache, "s1") = address
               /\ (scan_line = -1 /\ address # PyNone)
                    => /\ last_response = "ok"
                       /\ RegexMatches(page_text)
                       /\ address = PyStr(Strip(RegexGroup(page_text)))
                       /\ Get(address_cache, "s1") = address
               /\ last_response # "ok" => address = PyNone

\* the line scan accepted an address on a page where the regex matches
\* something else, earlier in the text
C26_Witness ==
    /\ pc = "extracted"
    /\ scan_line # -1
    /\ RegexMatches(page_text)
    /\ PyStr(Strip(RegexGroup(page_text))) # address
    /\ address = PyStr(<< "A", "b", "c", "d" >>)
    /\ Get(address_cache, "s1") = address

\* C27: while a row is processed, failed_addresses goes up by exactly one
\* when get_school_address returns without an address and stays as it is
\* otherwise, and failed_geocoding goes up by exactly one when
\* geocode_address returns without a coordinate and stays as it is
\* otherwise; a row whose page answered 404 and whose geocoding failed has
\* raised both counters and added no record.
C27_FailureCounters ==
    [][/\ (pc = "row" /\ pc' = "geocode")
            => /\ failed_addresses' =
                      failed_addresses + (IF Truthy(address') THEN 0 ELSE 1)
               /\ failed_geocoding' = failed_geocoding
       /\ (pc \in Running /\ pc # "row" /\ pc' \in Running)
            => failed_addresses' = failed_addresses
       /\ (pc \in Running /\ GeocodeReturns)
            => /\ failed_geocoding' =
                      failed_geocoding + (IF Truthy(coords') THEN 0 ELSE 1)
               /\ (last_response = "status" /\ ~Truthy(coords'))
                    => /\ address = PyNone
                       /\ school_data' = school_data
                       /\ \A q \in 1..Len(geo_log') :
                              geo_log'[q] = MunicipalityQuery(Row.municipality)
       /\ (pc \in Running /\ ~GeocodeReturns /\ pc' \in Running)
            => failed_geocoding' = failed_geocoding]_vars

\* the first row's page answered 404 and its municipality query found
\* nothing: both counters are one and there is no record
C27_Witness ==
    /\ GeocodeReturned
    /\ idx = 0
    /\ last_response = "status"
    /\ address = PyNone
    /\ coords = PyNone
    /\ geo_log # << >>
    /\ failed_addresses = 1
    /\ failed_geocoding = 1
    /\ school_data = << >>

\* C28: every network call of the resolvers, the page GET and every
\* geocoding query in either variant, carries an explicit finite timeout,
\* so a silent server never blocks the pipeline for longer than that.
C28_EveryCallTimed ==
    /\ http_log # << >> => (PageTimeout.set /\ PageTimeout.seconds > 0)
    /\ geo_log # << >>
         => (GeocodeTimeout(variant).set /\ GeocodeTimeout(variant).seconds > 0)
    /\ pc # "blocked"

-----------------------------------------------------------------------------
(* A full run that nothing interrupts: the process is not killed, and every
   external call returns or fails *)

\* one query of the cascade, answered or failed
GeocodeQueryReturns == GeocodeQuery /\ pc' # "blocked"

NextLive ==
    \/ Start
    \/ ProcessAddress
    \/ GeocodeBegin
    \/ GeocodeQueryReturns
    \/ SaveAddressCache
    \/ SaveCoordCache
    \/ Sleep

\* the single thread of main() takes its next step whenever it has one
SpecLive == Init /\ [][NextLive]_vars /\ WF_vars(NextLive)

\* C29: provided every external call returns or fails, a run that has
\* entered the row loop eventually has processed every row and flushed both
\* caches: no failed fetch, parse or geocoding query ends it early.
C29_RunCompletes ==
    (pc \in Running)
        ~> (pc = "done" /\ idx = Len(dataset) /\ FilesCurrent)

\* a run completed although its first row had neither address nor
\* coordinate; the second row was processed and became a record
C29_Witness ==
    /\ pc = "done"
    /\ run = 1
    /\ Len(dataset) = 2
    /\ idx = 2
    /\ dataset[1].school_id # dataset[2].school_id
    /\ failed_addresses >= 1
    /\ failed_geocoding = 1
    /\ Len(school_data) = 1
    /\ school_data[1].school_id = dataset[2].school_id
    /\ FilesCurrent

-----------------------------------------------------------------------------
(* extractor.py: SkolverketExtractor *)

\* Python values of the extractor: int, list and dict besides None and str
PyInt(n) == [t |-> "int", n |-> n]
PyListOf(items) == [t |-> "list", items |-> items]
PyDict(d) == [t |-> "dict", d |-> d]

\* the JSON values json.dump writes for them
JNumber(n) == [j |-> "number", n |-> n]
JList(items) == [j |-> "array", items |-> items]
JObject(members) == [j |-> "object", members |-> members]

RECURSIVE JsonOf(_)
JsonOf(v) ==
    IF v.t = "None" THEN JNull
    ELSE IF v.t = "str" THEN JString(v.s)
    ELSE IF v.t = "int" THEN JNumber(v.n)
    ELSE IF v.t = "list"
    THEN JList([i \in 1..Len(v.items) |-> JsonOf(v.items[i])])
    ELSE JObject([i \in 1..Len(v.d) |->
                     [key |-> v.d[i].k, val |-> JsonOf(v.d[i].v)]])

\* df.head(10)
HeadSchools == 10

\* range(20) of create_mock_data
MockSchools == 20

\* the columns of the register that get_schools reads
RegisterColumns ==
    << "Skolenhetskod", "Skolenhetsnamn", "Kommunnamn", "Skolformnamn" >>

\* the cell of row i in a column
Cell(col, i) ==
    IF col = "Skolenhetskod" THEN PyInt(1000 + i)
    ELSE IF col = "Skolenhetsnamn" THEN PyStr("Skola " \o ToString(i))
    ELSE IF col = "Kommunnamn" THEN PyStr("Uppsala")
    ELSE PyStr("Grundskola")

\* row i of a data frame that has the columns cols: a Series, as a dict
RegisterRow(cols, i) == [c \in 1..Len(cols) |-> [k |-> cols[c], v |-> Cell(cols[c], i)]]

\* the column sets a downloaded register is drawn from: all four columns,
\* the school type missing, the code and the type missing, none of them
ColumnSets ==
    {RegisterColumns,
     << "Skolenhetskod", "Skolenhetsnamn", "Kommunnamn" >>,
     << "Skolenhetsnamn", "Kommunnamn" >>,
     << >>}

\* what requests.get and pd.read_excel can give: a frame of n rows, a
\* status other than 200, an exception of the transport, or a body that
\* read_excel rejects
Downloads ==
    {[kind |-> "frame", cols |-> c, n |-> n] :
        c \in ColumnSets, n \in 0..MaxRegisterRows}
    \cup {[kind |-> k, cols |-> << >>, n |-> 0] :
            k \in {"status", "exception", "unreadable"}}

\* Series.get(col, default)
RowGet(row, col, default) == IF Has(row, col) THEN Get(row, col) ELSE default

NotAvailable == PyStr("N/A")

\* the two grades get_school_grades returns when the request fails
MockGrades ==
    PyListOf(<< PyDict(<< [k |-> "subject", v |-> PyStr("Mathematics")],
                          [k |-> "grade", v |-> PyStr("A")],
                          [k |-> "year", v |-> PyInt(2023)] >>),
                PyDict(<< [k |-> "subject", v |-> PyStr("Swedish")],
                          [k |-> "grade", v |-> PyStr("B")],
                          [k |-> "year", v |-> PyInt(2023)] >>) >>)

\* the documents response.json() is drawn from: a list with one grade
\* record, the empty list, an object
GradeDocuments ==
    {PyListOf(<< PyDict(<< [k |-> "subject", v |-> PyStr("Svenska")],
                           [k |-> "grade", v |-> PyStr("C")],
                           [k |-> "year", v |-> PyInt(2024)],
                           [k |-> "students_count", v |-> PyInt(30)] >>) >>),
     PyListOf(<< >>),
     PyDict(<< [k |-> "error", v |-> PyStr("not found")] >>)}

\* what the grades request can give: a JSON document, or a failure (status,
\* transport, body that is no JSON)
GradeAnswers ==
    {[kind |-> "json", value |-> d] : d \in GradeDocuments}
    \cup {[kind |-> "error", value |-> PyNone]}

\* get_school_grades(school_code), given what the request gives
get_school_grades(ans) == IF ans.kind = "json" THEN ans.value ELSE MockGrades

\* Seeded fault: the record gets only the fields whose column the frame has
RegisterSchool_OnlyPresent(row, grades) ==
    LET fields == << [k |-> "school_code", col |-> "Skolenhetskod"],
                     [k |-> "school_name", col |-> "Skolenhetsnamn"],
                     [k |-> "municipality", col |-> "Kommunnamn"],
                     [k |-> "school_type", col |-> "Skolformnamn"] >>
        present == SelectSeq(fields, LAMBDA f : Has(row, f.col))
    IN  [i \in 1..Len(present) |->
            [k |-> present[i].k, v |-> Get(row, present[i].col)]]
        \o << [k |-> "grades", v |-> grades] >>

\* lines 34-40 of get_schools: the record of one row of the register
RegisterSchool(row, grades) ==
    << [k |-> "school_code", v |-> RowGet(row, "Skolenhetskod", NotAvailable)],
       [k |-> "school_name", v |-> RowGet(row, "Skolenhetsnamn", NotAvailable)],
       [k |-> "municipality", v |-> RowGet(row, "Kommunnamn", NotAvailable)],
       [k |-> "school_type", v |-> RowGet(row, "Skolformnamn", NotAvailable)],
       [k |-> "grades", v |-> grades] >>

\* the lists create_mock_data chooses from (written without diacritics)
Municipalities == << "Stockholm", "Goteborg", "Malmo", "Uppsala", "Linkoping",
                     "Orebro" >>
SchoolTypes == << "Grundskola", "Gymnasium", "Forskola", "Gymnasiesarskola" >>
Subjects == << "Matematik", "Svenska", "Engelska", "Naturkunskap",
               "Samhallskunskap", "Idrott" >>
GradeLetters == << "A", "B", "C", "D", "E", "F" >>

\* one outcome of random.choice(list) resp. random.randint(lo, hi): the
\* draws are a function of a seed and of the position of the draw
Choice(list, r) == list[(r % Len(list)) + 1]
RandInt(lo, hi, r) == lo + (r % (hi - lo + 1))

\* lines 87-92: one grade record of mock school i
MockGrade(seed, i, j) ==
    PyDict(<< [k |-> "subject", v |-> PyStr(Choice(Subjects, seed + i + j))],
              [k |-> "grade", v |-> PyStr(Choice(GradeLetters, seed * j + i))],
              [k |-> "year", v |-> PyInt(RandInt(2022, 2024, seed + j))],
              [k |-> "students_count",
               v |-> PyInt(RandInt(15, 45, seed + i * j))] >>)

\* lines 80-100: mock school i, for i in range(20)
MockSchool(seed, i) ==
    LET municipality == Choice(Municipalities, seed + i)
        school_type == Choice(SchoolTypes, seed + 2 * i)
        count == RandInt(3, 8, seed + i)
    IN  << [k |-> "school_code", v |-> PyStr("SE" \o ToString(1000 + i))],
           [k |-> "school_name",
            v |-> PyStr(municipality \o " " \o school_type \o " "
                        \o ToString(i + 1))],
           [k |-> "municipality", v |-> PyStr(municipality)],
           [k |-> "school_type", v |-> PyStr(school_type)],
           [k |-> "grades",
            v |-> PyListOf([j \in 1..count |-> MockGrade(seed, i, j)])] >>

\* create_mock_data(): the list that replaces self.schools_data
create_mock_data(seed) == [n \in 1..MockSchools |-> MockSchool(seed, n - 1)]

\* get_schools(): self.schools_data afterwards, given the outcome of the
\* download, of the grades requests (a1 for the odd rows, a2 for the even
\* ones) and of the random draws
get_schools(data, download, a1, a2, seed) ==
    IF download.kind = "frame"
    THEN LET head == IF download.n > HeadSchools THEN HeadSchools
                     ELSE download.n
         IN  data \o [i \in 1..head |->
                        RegisterSchool(RegisterRow(download.cols, i),
                                       get_school_grades(IF i % 2 = 1 THEN a1
                                                         ELSE a2))]
    ELSE create_mock_data(seed)

\* whether the loops of lines 113-124 raise: school['grades'] or a
\* subscript of lines 116-118 on a key the school lacks (evaluated once per
\* grade), or 'for grade in school['grades']' with the subscripts of lines
\* 120-123 (GradesRaise)
FlattenRaises(data) ==
    LET GradesRaise(g) ==
            IF g.t = "list"
            THEN \E j \in 1..Len(g.items) :
                    \/ g.items[j].t # "dict"
                    \/ \E key \in {"subject", "grade", "year"} :
                            ~Has(g.items[j].d, key)
            ELSE IF g.t = "dict" THEN g.d # << >>
            ELSE IF g.t = "str" THEN g.s # ""
            ELSE TRUE
    IN
    \E i \in 1..Len(data) :
        \/ ~Has(data[i], "grades")
        \/ /\ Has(data[i], "grades")
           /\ \/ GradesRaise(Get(data[i], "grades"))
              \/ /\ Get(data[i], "grades").t = "list"
                 /\ Get(data[i], "grades").items # << >>
                 /\ \E key \in {"school_code", "school_name", "municipality"} :
                        ~Has(data[i], key)

\* lines 115-124: the flattened record of one grade of one school
FlatRecord(school, grade) ==
    << [k |-> "school_code", v |-> Get(school, "school_code")],
       [k |-> "school_name", v |-> Get(school, "school_name")],
       [k |-> "municipality", v |-> Get(school, "municipality")],
       [k |-> "school_type", v |-> RowGet(school, "school_type", NotAvailable)],
       [k |-> "subject", v |-> Get(grade, "subject")],
       [k |-> "grade", v |-> Get(grade, "grade")],
       [k |-> "year", v |-> Get(grade, "year")],
       [k |-> "students_count", v |-> RowGet(grade, "students_count", PyInt(0))] >>

\* flattened_data, for data on which the loops do not raise
RECURSIVE Flatten(_)
Flatten(data) ==
    IF data = << >> THEN << >>
    ELSE LET school == Head(data)
             g == Get(school, "grades")
         IN  (IF g.t = "list"
              THEN [j \in 1..Len(g.items) |-> FlatRecord(school, g.items[j].d)]
              ELSE << >>)
             \o Flatten(Tail(data))

\* pd.DataFrame(flattened_data).to_csv(.., index=False): the header, which
\* is the keys of the records, and one line of cells per record
ToCsv(flat) ==
    LET CsvText(v) == IF v.t = "str" THEN v.s
                      ELSE IF v.t = "int" THEN ToString(v.n)
                      ELSE ""
    IN
    FileWith([columns |-> (IF flat = << >> THEN << >>
                           ELSE [c \in 1..Len(flat[1]) |-> flat[1][c].k]),
              rows |-> [r \in 1..Len(flat) |->
                           [c \in 1..Len(flat[r]) |-> CsvText(flat[r][c].v)]]])

InitExtractor ==
    /\ variant \in {"google", "nominatim"}
    /\ api_key_file = (IF variant = "google" THEN "present" ELSE "missing")
    /\ dataset = << >>
    /\ csv_rows = << >>
    /\ top = DefaultTop
    /\ page_text = << >>
    /\ scan_line = -1
    /\ schools_data = << >>
    /\ schools_json = NoFile
    /\ grades_csv = NoFile
    /\ merit_values = << >>
    /\ buckets = << >>
    /\ NotStarted

\* extractor.get_schools() of main()
GetSchools ==
    /\ pc = "idle"
    /\ \E download \in Downloads, a1 \in GradeAnswers, a2 \in GradeAnswers,
          seed \in 1..MaxSeed :
         schools_data' = get_schools(schools_data, download, a1, a2, seed)
    /\ pc' = "got_schools"
    /\ UNCHANGED << variant, api_key_file, dataset, csv_rows, top, page_text,
                    scan_line, schools_json, grades_csv, merit_values,
                    buckets,
                    files, flushed, geo_locals, run, started_cached, prev_records,
                    address_cache, coord_cache, idx, was_cached, address,
                    coords, school_data, failed_addresses, failed_geocoding,
                    cache_hits, geo_hit, http_log, last_response, geo_log,
                    last_answer, sleeps >>

\* extractor.save_data() of main(): the JSON file is written and closed,
\* then the records are flattened and the CSV file written; an exception in
\* the flattening leaves save_data before the CSV file is opened
SaveData ==
    /\ pc = "got_schools"
    /\ schools_json' =
           FileWith(JsonOf(PyListOf([i \in 1..Len(schools_data) |->
                                        PyDict(schools_data[i])])))
    /\ IF FlattenRaises(schools_data)
       THEN /\ pc' = "save_raised"
            /\ UNCHANGED grades_csv
       ELSE /\ pc' = "saved"
            /\ grades_csv' = ToCsv(Flatten(schools_data))
    /\ UNCHANGED << variant, api_key_file, dataset, csv_rows, top, page_text,
                    scan_line, schools_data, merit_values, buckets,
                    files, flushed, geo_locals, run, started_cached, prev_records,
                    address_cache, coord_cache, idx, was_cached, address,
                    coords, school_data, failed_addresses, failed_geocoding,
                    cache_hits, geo_hit, http_log, last_response, geo_log,
                    last_answer, sleeps >>

NextExtractor ==
    \/ GetSchools
    \/ SaveData

SpecExtractor == InitExtractor /\ [][NextExtractor]_vars

\* the keys of a JSON object
ObjectKeys(jv) == {jv.members[i].key : i \in 1..Len(jv.members)}

\* C30: after get_schools() and save_data(), schools_data.json holds a list
\* whose every element is an object with the fields school_code,
\* school_name, municipality and grades, whether the records came from the
\* register or from the mock data.
C30_JsonRecordFields ==
    pc \in {"saved", "save_raised"}
        => /\ schools_json.exists
           /\ schools_json.data.j = "array"
           /\ Len(schools_json.data.items) = Len(schools_data)
           /\ \A i \in 1..Len(schools_json.data.items) :
                LET rec == schools_json.data.items[i]
                IN  /\ rec.j = "object"
                    /\ {"school_code", "school_name", "municipality",
                        "grades"} \subseteq ObjectKeys(rec)

\* records of a register without the code and type columns were saved
C30_Witness ==
    /\ pc = "saved"
    /\ Len(schools_data) = 2
    /\ Get(schools_data[1], "school_code") = NotAvailable
    /\ schools_json.exists
    /\ Len(schools_json.data.items) = 2
    /\ "school_code" \in ObjectKeys(schools_json.data.items[1])

\* the number of (school, grade record) pairs of a list of school records
RECURSIVE GradePairs(_)
GradePairs(data) ==
    IF data = << >> THEN 0
    ELSE LET g == Get(Head(data), "grades")
         IN  (IF g.t = "list" THEN Len(g.items)
              ELSE IF g.t = "dict" THEN Len(g.d)
              ELSE 0)
             + GradePairs(Tail(data))

\* C31: after save_data(), schools_grades.csv has the columns school_code,
\* school_name, municipality, school_type, subject, grade, year and
\* students_count and exactly one row per (school, grade record) pair of
\* schools_data, for every schools_data that get_schools() can produce.
C31_CsvRowPerGrade ==
    pc \in {"saved", "save_raised"}
        => /\ grades_csv.exists
           /\ grades_csv.data.columns =
                  << "school_code", "school_name", "municipality",
                     "school_type", "subject", "grade", "year",
                     "students_count" >>
           /\ Len(grades_csv.data.rows) = GradePairs(schools_data)

\* every entry of dict d is in dict e with the same value
EntriesKept(d, e) ==
    \A k \in Keys(d) : Has(e, k) /\ Get(e, k) = Get(d, k)

\* C32: within a run, a key that is present in the address cache or in the
\* coordinate cache keeps its value through every later call of
\* get_school_address and geocode_address: entries are added, never changed
\* or removed.
C32_WriteOnce ==
    [][(pc \in Running /\ pc' \in Running \cup {"done", "aborted", "blocked"})
          => /\ EntriesKept(address_cache, address_cache')
             /\ EntriesKept(coord_cache, coord_cache')]_vars

\* the second row of a first run repeats the school of the first row: both
\* lookups were served from the entries the first row wrote, unchanged
C32_Witness ==
    /\ run = 1
    /\ idx = 1
    /\ GeocodeReturned
    /\ dataset[1] = dataset[2]
    /\ was_cached
    /\ geo_hit
    /\ Get(address_cache, dataset[2].school_id) = address
    /\ Len(address_cache) = 1
    /\ Len(coord_cache) = 1
    /\ Truthy(coords)

-----------------------------------------------------------------------------
(* geocode_address on lookups whose keys can coincide: a first run on two
   schools whose addresses an earlier run has left in address_cache.json *)

\* KeyAddresses: addresses get_school_address can have cached: none, the
\* empty string, the word None, a street address, a street address with a
\* bar in it.  KeyMunicipalities: municipality cells of the CSV file
InitKey ==
    LET KeyAddresses ==
            {PyNone,
             PyStr(<< >>),
             PyStr(NoneWord),
             PyStr(<< "V", "a", "g", "1" >>),
             PyStr(<< "V", "a", "g", "1", "|", "U", "p" >>)}
        KeyMunicipalities == {Uppsala, Kiruna, << "U", "p", "|", "K", "i" >>}
    IN
    /\ variant \in {"google", "nominatim"}
    /\ api_key_file = (IF variant = "google" THEN "present" ELSE "missing")
    /\ \E m1 \in KeyMunicipalities, m2 \in KeyMunicipalities :
         dataset = << [school_id |-> "s1", municipality |-> m1],
                      [school_id |-> "s2", municipality |-> m2] >>
    /\ csv_rows = CanonCsv(dataset)
    /\ top = DefaultTop
    /\ page_text = << >>
    /\ scan_line = -1
    /\ schools_data = << >>
    /\ schools_json = NoFile
    /\ grades_csv = NoFile
    /\ merit_values = << >>
    /\ buckets = << >>
    /\ \E a1 \in KeyAddresses, a2 \in KeyAddresses :
         address_file = SaveCache(<< [k |-> "s1", v |-> a1],
                                     [k |-> "s2", v |-> a2] >>)
    /\ coord_file = NoFile
    /\ pc = "idle"
    /\ run = 0
    /\ started_cached = FALSE
    /\ prev_records = NoRecords
    /\ address_cache = EmptyDict
    /\ coord_cache = EmptyDict
    /\ idx = 0
    /\ was_cached = FALSE
    /\ address = PyNone
    /\ coords = PyNone
    /\ school_data = << >>
    /\ failed_addresses = 0
    /\ failed_geocoding = 0
    /\ cache_hits = 0
    /\ cache_key = << >>
    /\ search_addresses = << >>
    /\ cand = 0
    /\ attempt = 0
    /\ geo_hit = FALSE
    /\ http_log = << >>
    /\ last_response = "none"
    /\ geo_log = << >>
    /\ last_answer = NoAnswer
    /\ sleeps = 0
    /\ flushed_null_ids = {}
    /\ flushed_null_keys = {}

\* the first start of the script
StartOnce == run = 0 /\ Start

NextKey ==
    \/ StartOnce
    \/ ProcessAddress
    \/ GeocodeBegin
    \/ GeocodeQueryReturns
    \/ SaveAddressCache
    \/ SaveCoordCache
    \/ Sleep

SpecKey == InitKey /\ [][NextKey]_vars

\* C33: two lookups share a coordinate cache key only if they have the same
\* municipality and the same address or both no address; so when the lookup
\* of the second school is answered from the entry the first school's lookup
\* wrote, the two lookups are the same.
C33_KeyInjective ==
    (run = 1 /\ idx = 1 /\ pc # "row" /\ pc # "geocode" /\ geo_hit)
        => /\ dataset[1].municipality = dataset[2].municipality
           /\ \/ Get(address_cache, "s1") = Get(address_cache, "s2")
              \/ (~Truthy(Get(address_cache, "s1"))
                  /\ ~Truthy(Get(address_cache, "s2")))

\* C34: every non-null value get_school_address returns or stores is a
\* non-empty trimmed string of more than 3 characters, whether the line scan
\* or the regex produced it; a failed extraction is stored as null.
C34_AddressLongerThanThree ==
    pc = "extracted"
        => /\ Get(address_cache, "s1") = address
           /\ address # PyNone
                => /\ address.t = "str"
                   /\ address.s # << >>
                   /\ Strip(address.s) = address.s
                   /\ Len(address.s) > 3

\* the rows of this run for which get_school_address has been called
AddressCalls ==
    IF pc \in {"geocode", "query", "blocked"} \/ GeocodeReturned THEN idx + 1
    ELSE idx

\* C35: in a run, each processed row either found its id in the address
\* cache (one more cache hit, no GET) or issued exactly one GET: cache_hits
\* plus the number of GETs is the number of rows processed, and no id is
\* fetched twice in a run, even if several rows carry it.
C35_HitOrOneGet ==
    pc \in Running \cup {"done", "blocked"}
        => /\ cache_hits + Len(http_log) = AddressCalls
           /\ \A i, j \in 1..Len(http_log) :
                  http_log[i] = http_log[j] => i = j
           /\ (pc \in {"geocode", "query", "blocked"} \/ GeocodeReturned)
                => (was_cached <=> last_response = "none")

\* a completed first run on two rows that carry the same id: one GET, then
\* one cache hit
C35_Witness ==
    /\ pc = "done"
    /\ run = 1
    /\ idx = 2
    /\ dataset[1].school_id = dataset[2].school_id
    /\ http_log = << dataset[1].school_id >>
    /\ cache_hits = 1

\* C36: a full run that is started right after a completed run, on the same
\* dataset and with the cache files that run has written, ends with the
\* same list of enriched records: same ids, addresses, latitudes and
\* longitudes, in the same order.
C36_RerunSameRecords ==
    (pc = "done" /\ prev_records.set) => school_data = prev_records.list

\* the second run has completed without a request; the first run had found
\* no address for the school of the first row and had emitted it with the
\* municipality as its address, and so has the second
C36_Witness ==
    /\ pc = "done"
    /\ run = 2
    /\ prev_records.set
    /\ Len(dataset) = 2
    /\ Len(prev_records.list) = 2
    /\ ~Truthy(Get(address_cache, dataset[1].school_id))
    /\ prev_records.list[1].address = dataset[1].municipality
    /\ http_log = << >>
    /\ school_data = prev_records.list

\* the set of the records of a list
RecordSet(list) == {list[i] : i \in 1..Len(list)}

\* C37: on the same dataset and the same cache contents, cache-only mode
\* emits exactly the set of enriched records, with the same address and
\* coordinate fields, that a full run emits when every lookup is a cache
\* hit; the caches being those of a completed full run, that is the set of
\* records of that run.
C37_MapModeSameRecords ==
    (pc = "mapped" /\ prev_records.set)
        => RecordSet(school_data) = RecordSet(prev_records.list)

\* C38: every record a full run has emitted has a non-null address field:
\* the address get_school_address returned for its school (the entry of the
\* address cache) when that is non-empty, and the municipality otherwise.
C38_RecordAddress ==
    pc \in Running \cup {"done", "blocked"}
        => \A i \in 1..Len(school_data) :
             LET r == school_data[i]
                 returned == Get(address_cache, r.school_id)
             IN  /\ Has(address_cache, r.school_id)
                 /\ r.address # << >>
                 /\ r.address = (IF returned # PyNone /\ returned.s # << >>
                                 THEN returned.s ELSE r.municipality)

\* get_school_address returned the empty string for the row, and the record
\* emitted for it carries the municipality
C38_Witness ==
    /\ GeocodeReturned
    /\ address = PyStr(<< >>)
    /\ Truthy(coords)
    /\ school_data # << >>
    /\ school_data[Len(school_data)].school_id = Row.school_id
    /\ school_data[Len(school_data)].address = Row.municipality

-----------------------------------------------------------------------------
(* get_color of the Google Maps scripts: the colour of each record of a
   non-empty school_data *)

\* merit values, in tenths of a point
MeritValues == {1500, 1575, 2000, 2249, 2250}

\* the number of colours and the index of the last one
Levels == 10
LastBucket == 9

\* whether get_color raises: the division by max_merit - min_merit (or, when
\* the operands are numpy floats and the quotient is nan, the conversion
\* int(nan))
get_color_raises(min_merit, max_merit) == max_merit - min_merit = 0

\* bucket = min(int(normalized * 10), 9), for max_merit > min_merit; the
\* quotient is not negative, so int() is the floor
get_color(merit_value, min_merit, max_merit) ==
    LET scaled == ((merit_value - min_merit) * Levels)
                      \div (max_merit - min_merit)
    IN  IF scaled < LastBucket THEN scaled ELSE LastBucket

InitColor ==
    /\ variant = "google"
    /\ api_key_file = "present"
    /\ dataset = << >>
    /\ csv_rows = << >>
    /\ top = DefaultTop
    /\ page_text = << >>
    /\ scan_line = -1
    /\ schools_data = << >>
    /\ schools_json = NoFile
    /\ grades_csv = NoFile
    /\ merit_values \in UNION {[1..n -> MeritValues] : n \in 1..MaxMerits}
    /\ buckets = << >>
    /\ NotStarted

\* lines 485-498 of main(): the merit range, then get_color for each record
\* in turn; an exception in the first call ends the script
ColourRecords ==
    /\ pc = "idle"
    /\ LET values == {merit_values[i] : i \in 1..Len(merit_values)}
           min_merit == CHOOSE m \in values : \A v \in values : m <= v
           max_merit == CHOOSE m \in values : \A v \in values : v <= m
       IN  IF get_color_raises(min_merit, max_merit)
           THEN /\ pc' = "colour_raised"
                /\ UNCHANGED buckets
           ELSE /\ pc' = "coloured"
                /\ buckets' = [i \in 1..Len(merit_values) |->
                                  get_color(merit_values[i], min_merit,
                                            max_merit)]
    /\ UNCHANGED << variant, api_key_file, dataset, csv_rows, top, page_text,
                    scan_line, schools_data, schools_json, grades_csv,
                    merit_values,
                    files, flushed, geo_locals, run, started_cached,
                    prev_records,
                    address_cache, coord_cache, idx, was_cached, address,
                    coords, school_data, failed_addresses, failed_geocoding,
                    cache_hits, geo_hit, http_log, last_response, geo_log,
                    last_answer, sleeps >>

SpecColor == InitColor /\ [][ColourRecords]_vars

\* C39: for every non-empty list of records, a single record and records
\* that share one merit value included, get_color gives each record a
\* bucket in 0..9 without error, bucket 0 to the smallest merit value and
\* bucket 9 to the largest.
C39_BucketsInRange ==
    pc # "idle"
        => /\ pc = "coloured"
           /\ Len(buckets) = Len(merit_values)
           /\ \A i \in 1..Len(buckets) :
                /\ buckets[i] \in 0..9
                /\ (\A j \in 1..Len(merit_values) :
                        merit_values[i] <= merit_values[j]) => buckets[i] = 0
                /\ (\A j \in 1..Len(merit_values) :
                        merit_values[j] <= merit_values[i]) => buckets[i] = 9
====
